---- MODULE Spec2Model ----
(***************************************************************************)
(* Model of the voice assistant of voice_assistance_advance/ai.py:         *)
(*   - PiperTTS: the speech queue, its background worker, speak(),         *)
(*     wait_until_done() and shutdown();                                   *)
(*   - client threads that call the public PiperTTS operations;           *)
(*   - main() and VoiceAssistant.listen with the capture callback          *)
(*     (SpecListen);                                                       *)
(*   - WakeWordDetector and handle_command called directly (SpecDetector,  *)
(*     SpecCommands), noise_gate and is_significant_audio called directly  *)
(*     (SpecGate, SpecFilter);                                             *)
(*   - load_config and the reads of CONFIG at startup (SpecConfig).        *)
(* Threads interleave at every access to shared state (the lock, the       *)
(* queue, the two events); purely local computation is part of the step    *)
(* that precedes it.                                                       *)
(***************************************************************************)
EXTENDS Integers, Sequences, FiniteSets, TLC

\* ------------------------------------------------------------------ bounds

\* Total number of speak() calls made in one behaviour.
MaxRequests == 2
\* Total number of shutdown() calls made in one behaviour.
MaxShutdowns == 1
\* Total number of wait_until_done() calls made in one behaviour.
MaxWaits == 1
\* Total number of blocks the capture device delivers in one behaviour.
MaxBlocks == 3
\* Largest number of segments the transcription engine returns for a chunk.
MaxSegments == 1
\* Largest value of the clock.
MaxTime == 111

\* Speech requests made by handle_command when it is called directly.
MaxSpoken == 1
\* Samples per second of the capture stream in the model (16000 in the
\* default configuration): a chunk is sample_rate * chunk_duration samples.
sample_rate == 1
\* Longest array passed to noise_gate when it is called directly, and the
\* largest magnitude of its samples and of its threshold.
MaxLen == 3
MaxLevel == 2
\* CONFIG['error_recovery']['max_restart_attempts'] in the model (3 in the
\* default configuration): the iterations recovered before an error is fatal.
max_restarts == 2

\* ----------------------------------------------------------------- threads

Worker == "worker"
Supervisor == "main"
Clients == {"t1", "t2"}
Threads == Clients \cup {Supervisor}

\* The sentinel shutdown() puts on the speech queue (Python's None); request
\* ids start at 1.
None == 0

\* What one run of voice.synthesize + sd.play + sd.wait can do inside
\* _speak_blocking: play, yield no audio (early return), or raise (caught).
Outcomes == {"ok", "noaudio", "error"}

VARIABLES
    lock,            \* PiperTTS.lock: "free" or the thread that holds it
    speech_queue,    \* PiperTTS.speech_queue: request ids and None, FIFO
    unfinished,      \* Queue.unfinished_tasks of speech_queue
    is_speaking,     \* PiperTTS.is_speaking (threading.Event)
    shutdown_flag,   \* PiperTTS.shutdown_flag (threading.Event)
    wpc,             \* position of the worker thread in _speech_worker
    wtext,           \* the worker's local variable text (a request id)
    pc,              \* position of every other thread
    ctext,           \* the text argument of a blocking speak() in progress
    requests,        \* history: request id -> [text, blocking, late]
    started,         \* history: ids whose playback has started
    completed,       \* history: ids whose _speak_blocking has returned
    failed,          \* history: ids whose synthesis or playback raised
    waitSnap,        \* history: per thread, the ids enqueued before its
                     \*   wait_until_done() call
    nWaits,          \* history: wait_until_done() calls so far
    nShutdowns,      \* history: shutdown() calls so far
    shutdownReturned, \* history: some shutdown() call has returned
    audio_q,         \* VoiceAssistant.audio_q: blocks [samples, hot, id]
    audio_buffer,    \* listen()'s local audio_buffer
    segments,        \* listen()'s local segments still to be handled
    keep_running,    \* VoiceAssistant.keep_running
    restart_count,   \* VoiceAssistant.restart_count
    stream,          \* the sd.InputStream of listen(): "new", "open", "closed"
    is_awake,        \* WakeWordDetector.is_awake
    last_wake_time,  \* WakeWordDetector.last_wake_time
    now,             \* time.time()
    nCaptured,       \* history: blocks delivered to the callback so far
    bufHot,          \* history: audio_buffer holds a block captured while a
                     \*   playback was in progress
    lastChunk,       \* history: what happened to the last full chunk
    nTranscribed,    \* history: calls of the transcription engine
    farewells,       \* history: ids of the farewell requests of _skill_exit
    exits,           \* history: farewells whose _skill_exit has gone on to
                     \*   set keep_running to False
    ending,          \* history: why main() left its try block: "no" (the
                     \*   exit command), "interrupt", "fatal", "startup"
    exit_status,     \* the status the process exits with, -1 while it runs
    bufBlocks,       \* history: the blocks [samples, hot, id] taken into
                     \*   audio_buffer since it was last emptied
    chunks,          \* history: for every full chunk so far, in order,
                     \*   the ids of its blocks, whether it was the
                     \*   samples of these blocks as delivered, and
                     \*   whether it was passed to the transcription engine
    call             \* history: the last call of check, reset,
                     \*   handle_command or noise_gate made from outside
                     \*   listen()

ttsVars == <<lock, speech_queue, unfinished, is_speaking, shutdown_flag,
             wpc, wtext>>
histVars == <<requests, started, completed, failed, waitSnap, nWaits,
              nShutdowns, shutdownReturned>>
supVars == <<audio_q, audio_buffer, segments, keep_running, restart_count,
             stream, is_awake, last_wake_time, now, nCaptured, bufHot,
             lastChunk, nTranscribed, farewells, exits, ending, exit_status,
             bufBlocks, chunks>>
vars == <<ttsVars, pc, ctext, histVars, supVars, call>>

\* --------------------------------------------------------------- helpers

\* The playbacks in progress: inside _speak_blocking, lock held.
Playing == started \ completed

\* Ids of the requests handed to the queue by non-blocking speak().
Queued == {i \in 1..Len(requests) : ~requests[i].blocking}

\* queue.Queue.get on a nonempty queue: the oldest item, which is removed.
QueueGet(q) == Head(q)
QueueRest(q) == Tail(q)

\* `with self.lock:` can be entered.
LockAlwaysFree == TRUE
LockFree == lock = "free"

\* ------------------------------------------------------------------ Init

\* No call of the detector or of handle_command has been made.
NoCall == [op |-> "none", text |-> <<>>, t |-> 0, awake0 |-> FALSE,
           last0 |-> 0, result |-> FALSE, what |-> "none", said |-> 0,
           raised |-> FALSE]

\* The record kept about a full chunk: whether is_speaking was set when it
\* became ready, whether noise_gate ran on it, whether the check of
\* is_speaking found the flag set, whether it was transcribed, whether
\* it holds a block captured during a playback, and whether the engine call
\* raised.
NoChunk == [ready |-> FALSE, readySpeaking |-> FALSE, gated |-> FALSE,
            skipped |-> FALSE, transcribed |-> FALSE, hot |-> FALSE,
            engineFailed |-> FALSE]

\* The first value of the clock: time.time() is far beyond the timeout.
StartTime == 100

\* VoiceAssistant.__init__ and WakeWordDetector.__init__.
InitAssistant ==
    /\ audio_q = <<>>
    /\ audio_buffer = <<>>
    /\ segments = <<>>
    /\ keep_running = TRUE
    /\ restart_count = 0
    /\ stream = "new"
    /\ is_awake = FALSE
    /\ last_wake_time = 0
    /\ now = StartTime
    /\ nCaptured = 0
    /\ bufHot = FALSE
    /\ lastChunk = NoChunk
    /\ nTranscribed = 0
    /\ farewells = {}
    /\ exits = {}
    /\ ending = "no"
    /\ exit_status = -1
    /\ bufBlocks = <<>>
    /\ chunks = <<>>

\* The assistant with no call made from outside.
InitSupervisor ==
    /\ InitAssistant
    /\ call = NoCall

\* PiperTTS.__init__ but for the start of the worker thread.
InitSynth ==
    /\ lock = "free"
    /\ speech_queue = <<>>
    /\ unfinished = 0
    /\ is_speaking = FALSE
    /\ shutdown_flag = FALSE
    /\ wtext = None
    /\ ctext = [t \in Threads |-> None]
    /\ requests = <<>>
    /\ started = {}
    /\ completed = {}
    /\ failed = {}
    /\ waitSnap = [t \in Threads |-> {}]
    /\ nWaits = 0
    /\ nShutdowns = 0
    /\ shutdownReturned = FALSE

\* PiperTTS.__init__: the worker thread is started.
InitTTS ==
    /\ InitSynth
    /\ wpc = "loop"

\* The synthesizer used by client threads; the assistant is not run.
Init ==
    /\ InitTTS
    /\ InitSupervisor
    /\ pc = [t \in Threads |-> IF t = Supervisor THEN "off" ELSE "idle"]

\* main() about to construct the assistant: no PiperTTS and no worker thread
\* yet; no other thread uses the synthesizer.
InitListen ==
    /\ InitSynth
    /\ wpc = "new"
    /\ InitSupervisor
    /\ pc = [t \in Threads |-> IF t = Supervisor THEN "construct" ELSE "off"]

\* ------------------------------------------------- PiperTTS._speech_worker

\* while not self.shutdown_flag.is_set():
WLoop ==
    /\ wpc = "loop"
    /\ wpc' = IF shutdown_flag THEN "done" ELSE "get"
    /\ UNCHANGED <<lock, speech_queue, unfinished, is_speaking, shutdown_flag,
                   wtext, pc, ctext, histVars>>

\* text = self.speech_queue.get(timeout=0.5); if text is None: break;
\* queue.Empty: continue
WGetDiscards ==
    /\ wpc = "get"
    /\ IF speech_queue = <<>>
       THEN /\ wpc' = "loop"
            /\ UNCHANGED <<speech_queue, wtext>>
       ELSE /\ speech_queue' = QueueRest(speech_queue)
            /\ IF QueueGet(speech_queue) = None
               THEN wpc' = "done" /\ UNCHANGED wtext
               ELSE wpc' = "task_done" /\ wtext' = QueueGet(speech_queue)
    /\ UNCHANGED <<lock, unfinished, is_speaking, shutdown_flag, pc, ctext,
                   histVars>>
WGet ==
    /\ wpc = "get"
    /\ IF speech_queue = <<>>
       THEN /\ wpc' = "loop"
            /\ UNCHANGED <<speech_queue, wtext>>
       ELSE /\ speech_queue' = QueueRest(speech_queue)
            /\ IF QueueGet(speech_queue) = None
               THEN wpc' = "done" /\ UNCHANGED wtext
               ELSE wpc' = "set" /\ wtext' = QueueGet(speech_queue)
    /\ UNCHANGED <<lock, unfinished, is_speaking, shutdown_flag, pc, ctext,
                   histVars>>

\* self.is_speaking.set()
WSet ==
    /\ wpc = "set"
    /\ is_speaking' = TRUE
    /\ wpc' = "lock"
    /\ UNCHANGED <<lock, speech_queue, unfinished, shutdown_flag, wtext, pc,
                   ctext, histVars>>

\* self._speak_blocking(text): with self.lock:
WAcquire ==
    /\ wpc = "lock"
    /\ LockFree
    /\ lock' = Worker
    /\ started' = started \cup {wtext}
    /\ wpc' = "play"
    /\ UNCHANGED <<speech_queue, unfinished, is_speaking, shutdown_flag,
                   wtext,
                   pc, ctext, requests, completed, failed, waitSnap, nWaits,
                   nShutdowns, shutdownReturned>>

\* The body of _speak_blocking run by the worker: synthesize, play, wait;
\* an exception is caught and logged inside; the lock is released on return.
WFinishUncaught ==
    /\ wpc = "play"
    /\ \E o \in Outcomes :
        /\ failed' = IF o = "error" THEN failed \cup {wtext} ELSE failed
        /\ wpc' = IF o = "error" THEN "done" ELSE "clear"
    /\ completed' = completed \cup {wtext}
    /\ lock' = "free"
    /\ UNCHANGED <<speech_queue, unfinished, is_speaking, shutdown_flag,
                   wtext,
                   pc, ctext, requests, started, waitSnap, nWaits, nShutdowns,
                   shutdownReturned>>
WFinish ==
    /\ wpc = "play"
    /\ \E o \in Outcomes :
        failed' = IF o = "error" THEN failed \cup {wtext} ELSE failed
    /\ completed' = completed \cup {wtext}
    /\ lock' = "free"
    /\ wpc' = "clear"
    /\ UNCHANGED <<speech_queue, unfinished, is_speaking, shutdown_flag,
                   wtext,
                   pc, ctext, requests, started, waitSnap, nWaits, nShutdowns,
                   shutdownReturned>>

\* self.is_speaking.clear()
WClearOnSuccessOnly ==
    /\ wpc = "clear"
    /\ is_speaking' = IF wtext \in failed THEN is_speaking ELSE FALSE
    /\ wpc' = "task_done"
    /\ UNCHANGED <<lock, speech_queue, unfinished, shutdown_flag, wtext, pc,
                   ctext, histVars>>
WClear ==
    /\ wpc = "clear"
    /\ is_speaking' = FALSE
    /\ wpc' = "task_done"
    /\ UNCHANGED <<lock, speech_queue, unfinished, shutdown_flag, wtext, pc,
                   ctext, histVars>>

\* self.speech_queue.task_done()
WTaskDone ==
    /\ wpc = "task_done"
    /\ unfinished' = unfinished - 1
    /\ wpc' = "loop"
    /\ UNCHANGED <<lock, speech_queue, is_speaking, shutdown_flag, wtext, pc,
                   ctext, histVars>>

WorkerStep ==
    \/ WLoop
    \/ WGet
    \/ WSet
    \/ WAcquire
    \/ WFinish
    \/ WClear
    \/ WTaskDone

\* ------------------------------------------------------- PiperTTS.speak

\* A thread that is not inside a PiperTTS call.
Idle(t) == pc[t] \in {"idle", "wud_ret", "sd_ret"}

\* speak(text): self.speech_queue.put(text). The request gets the next id.
EnqueueFront(txt) ==
    /\ requests' = Append(requests, [text |-> txt, blocking |-> FALSE,
                                     late |-> shutdownReturned])
    /\ speech_queue' = <<Len(requests) + 1>> \o speech_queue
    /\ unfinished' = unfinished + 1
Enqueue(txt) ==
    /\ requests' = Append(requests, [text |-> txt, blocking |-> FALSE,
                                     late |-> shutdownReturned])
    /\ speech_queue' = Append(speech_queue, Len(requests) + 1)
    /\ unfinished' = unfinished + 1

\* speak(text, blocking=False) called by a client thread.
Speak(t) ==
    /\ Idle(t)
    /\ Len(requests) < MaxRequests
    /\ Enqueue("text")
    /\ pc' = [pc EXCEPT ![t] = "idle"]
    /\ UNCHANGED <<lock, is_speaking, shutdown_flag, wpc, wtext, ctext,
                   started, completed, failed, waitSnap, nWaits, nShutdowns,
                   shutdownReturned>>

\* speak(text, blocking=True): self._speak_blocking(text) on the caller's
\* thread; the caller next waits for the lock.
SpeakBlocking(t) ==
    /\ Idle(t)
    /\ Len(requests) < MaxRequests
    /\ requests' = Append(requests, [text |-> "text", blocking |-> TRUE,
                                     late |-> shutdownReturned])
    /\ ctext' = [ctext EXCEPT ![t] = Len(requests) + 1]
    /\ pc' = [pc EXCEPT ![t] = "sb_lock"]
    /\ UNCHANGED <<ttsVars, started, completed, failed, waitSnap, nWaits,
                   nShutdowns, shutdownReturned>>

\* _speak_blocking on a caller's thread: with self.lock:
SbAcquire(t) ==
    /\ pc[t] = "sb_lock"
    /\ LockFree
    /\ lock' = t
    /\ started' = started \cup {ctext[t]}
    /\ pc' = [pc EXCEPT ![t] = "sb_play"]
    /\ UNCHANGED <<speech_queue, unfinished, is_speaking, shutdown_flag, wpc,
                   wtext, ctext, requests, completed, failed, waitSnap,
                   nWaits,
                   nShutdowns, shutdownReturned>>

\* _speak_blocking on a caller's thread: synthesize, play, wait; an exception
\* is caught and logged; the lock is released and speak() returns.
SbFinish(t) ==
    /\ pc[t] = "sb_play"
    /\ \E o \in Outcomes :
        failed' = IF o = "error" THEN failed \cup {ctext[t]} ELSE failed
    /\ completed' = completed \cup {ctext[t]}
    /\ lock' = "free"
    /\ pc' = [pc EXCEPT ![t] = "idle"]
    /\ ctext' = [ctext EXCEPT ![t] = None]
    /\ UNCHANGED <<speech_queue, unfinished, is_speaking, shutdown_flag, wpc,
                   wtext, requests, started, waitSnap, nWaits, nShutdowns,
                   shutdownReturned>>

\* --------------------------------------------- PiperTTS.wait_until_done

\* Where a thread continues after wait_until_done() has returned.
AfterWait(t) == IF t = Supervisor THEN "exit_set" ELSE "wud_ret"

\* The call of wait_until_done(): the caller enters speech_queue.join().
WaitCall(t) ==
    /\ Idle(t)
    /\ nWaits < MaxWaits
    /\ nWaits' = nWaits + 1
    /\ waitSnap' = [waitSnap EXCEPT ![t] = Queued]
    /\ pc' = [pc EXCEPT ![t] = "wud_join"]
    /\ UNCHANGED <<ttsVars, ctext, requests, started, completed, failed,
                   nShutdowns, shutdownReturned>>

\* self.speech_queue.join() returns once unfinished_tasks is 0.
JoinReturnsAtOnce == TRUE
JoinCanReturn == unfinished = 0

WudJoin(t) ==
    /\ pc[t] = "wud_join"
    /\ JoinCanReturn
    /\ pc' = [pc EXCEPT ![t] = "wud_poll"]
    /\ UNCHANGED <<ttsVars, ctext, histVars>>

\* while self.is_speaking.is_set(): time.sleep(0.1)
WudPoll(t) ==
    /\ pc[t] = "wud_poll"
    /\ ~is_speaking
    /\ pc' = [pc EXCEPT ![t] = AfterWait(t)]
    /\ UNCHANGED <<ttsVars, ctext, histVars>>

\* ----------------------------------------------------- PiperTTS.shutdown

\* Where a thread continues after shutdown() has returned: a client after
\* the call; the Supervisor after listen()'s _cleanup (its first shutdown) in
\* main()'s finally clause, and after main()'s _cleanup at the end of main().
AfterShutdown(t) ==
    IF t = Supervisor
    THEN (IF nShutdowns <= 1 THEN "main_finally" ELSE "main_end")
    ELSE "sd_ret"

\* A thread at a call of shutdown(): a client at any time, the Supervisor in
\* _cleanup.
AtShutdownCall(t) ==
    IF t = Supervisor
    THEN pc[t] \in {"cleanup", "main_finally"}
    ELSE Idle(t) /\ nShutdowns < MaxShutdowns

\* self.shutdown_flag.set()
ShutdownCall(t) ==
    /\ AtShutdownCall(t)
    /\ nShutdowns' = nShutdowns + 1
    /\ shutdown_flag' = TRUE
    /\ pc' = [pc EXCEPT ![t] = "sd_put"]
    /\ UNCHANGED <<lock, speech_queue, unfinished, is_speaking, wpc, wtext,
                   ctext, requests, started, completed, failed, waitSnap,
                   nWaits, shutdownReturned>>

\* self.speech_queue.put(None)
SdPut(t) ==
    /\ pc[t] = "sd_put"
    /\ speech_queue' = Append(speech_queue, None)
    /\ unfinished' = unfinished + 1
    /\ pc' = [pc EXCEPT ![t] = "sd_join"]
    /\ UNCHANGED <<lock, is_speaking, shutdown_flag, wpc, wtext, ctext,
                   histVars>>

\* self.speech_thread.join(timeout=2): returns when the worker has ended or
\* when the two seconds have passed, whichever comes first.
SdJoinUnbounded(t) ==
    /\ pc[t] = "sd_join"
    /\ wpc = "done"
    /\ pc' = [pc EXCEPT ![t] = AfterShutdown(t)]
    /\ shutdownReturned' = TRUE
    /\ UNCHANGED <<ttsVars, ctext, requests, started, completed, failed,
                   waitSnap, nWaits, nShutdowns>>
SdJoin(t) ==
    /\ pc[t] = "sd_join"
    /\ pc' = [pc EXCEPT ![t] = AfterShutdown(t)]
    /\ shutdownReturned' = TRUE
    /\ UNCHANGED <<ttsVars, ctext, requests, started, completed, failed,
                   waitSnap, nWaits, nShutdowns>>

\* ------------------------------------------------------------ client threads

ClientStep(t) ==
    \/ Speak(t)
    \/ SpeakBlocking(t)
    \/ SbAcquire(t)
    \/ SbFinish(t)
    \/ WaitCall(t)
    \/ WudJoin(t)
    \/ WudPoll(t)
    \/ ShutdownCall(t)
    \/ SdPut(t)
    \/ SdJoin(t)

Next ==
    \/ WorkerStep /\ UNCHANGED <<supVars, call>>
    \/ \E t \in Clients : ClientStep(t) /\ UNCHANGED <<supVars, call>>

\* The speech synthesizer with its worker and the client threads.
Spec == Init /\ [][Next]_vars

\* The worker thread's steps outside _speak_blocking: the loop test, the
\* timed get, the flag and the queue bookkeeping.
WorkerIdleStep ==
    /\ WLoop \/ WGet \/ WSet \/ WClear \/ WTaskDone
    /\ UNCHANGED <<supVars, call>>

\* The steps of shutdown() after the flag is set: the put on the unbounded
\* queue and the join with its timeout.
ShutdownStep(t) == (SdPut(t) \/ SdJoin(t)) /\ UNCHANGED <<supVars, call>>

\* The synthesizer with every thread scheduled, and no assumption that a
\* synthesis call or a playback ever ends.
SpecShutdown ==
    /\ Init
    /\ [][Next]_vars
    /\ WF_vars(WorkerIdleStep)
    /\ \A t \in Clients : WF_vars(ShutdownStep(t))

\* The synthesizer with the worker scheduled fairly and every playback,
\* the worker's or a blocking caller's, coming to an end.
SpecLive ==
    /\ Init
    /\ [][Next]_vars
    /\ WF_vars(WorkerStep /\ UNCHANGED <<supVars, call>>)
    /\ \A t \in Clients :
         WF_vars((SbAcquire(t) \/ SbFinish(t)) /\ UNCHANGED <<supVars, call>>)

\* The steps of wait_until_done() after the call: the return of
\* speech_queue.join() and the poll of is_speaking.
WaitStep(t) == (WudJoin(t) \/ WudPoll(t)) /\ UNCHANGED <<supVars, call>>

\* The synthesizer with every thread scheduled and every playback coming to
\* an end: the worker, the blocking callers, the callers of shutdown() and
\* the callers of wait_until_done().
SpecWait ==
    /\ Init
    /\ [][Next]_vars
    /\ WF_vars(WorkerStep /\ UNCHANGED <<supVars, call>>)
    /\ \A t \in Clients :
         /\ WF_vars((SbAcquire(t) \/ SbFinish(t))
                        /\ UNCHANGED <<supVars, call>>)
         /\ WF_vars(ShutdownStep(t))
         /\ WF_vars(WaitStep(t))

\* =================================================== text and wake word

\* Texts are sequences of one-character strings.
UpperCase == <<"A","B","C","D","E","F","G","H","I","J","K","L","M",
               "N","O","P","Q","R","S","T","U","V","W","X","Y","Z">>
LowerCase == <<"a","b","c","d","e","f","g","h","i","j","k","l","m",
               "n","o","p","q","r","s","t","u","v","w","x","y","z">>
Whitespace == {" ", "\t", "\n"}

\* str.lower()
LowerChar(c) ==
    IF \E i \in 1..Len(UpperCase) : UpperCase[i] = c
    THEN LowerCase[CHOOSE i \in 1..Len(UpperCase) : UpperCase[i] = c]
    ELSE c
Lower(s) == [i \in 1..Len(s) |-> LowerChar(s[i])]

\* str.strip(): leading and trailing whitespace removed.
RECURSIVE LStrip(_)
LStrip(s) ==
    IF s # <<>> /\ Head(s) \in Whitespace THEN LStrip(Tail(s)) ELSE s
RECURSIVE RStrip(_)
RStrip(s) ==
    IF s # <<>> /\ s[Len(s)] \in Whitespace
    THEN RStrip(SubSeq(s, 1, Len(s) - 1))
    ELSE s
Strip(s) == RStrip(LStrip(s))

\* s starts with sub.
StartsWith(s, sub) ==
    Len(sub) <= Len(s) /\ SubSeq(s, 1, Len(sub)) = sub

\* `sub in s`: sub is a substring of s.
Contains(s, sub) ==
    \E i \in 1..(Len(s) + 1) :
        i + Len(sub) - 1 <= Len(s) /\ SubSeq(s, i, i + Len(sub) - 1) = sub

\* s.replace(old, ""): every non-overlapping occurrence of old, found from
\* the left, removed (old is not empty).
RECURSIVE Remove(_, _)
Remove(s, old) ==
    IF s = <<>> THEN <<>>
    ELSE IF StartsWith(s, old)
         THEN Remove(SubSeq(s, Len(old) + 1, Len(s)), old)
         ELSE <<Head(s)>> \o Remove(Tail(s), old)

\* CONFIG['wake_word']['phrase'], CONFIG['wake_word']['timeout'] (seconds).
WAKE_WORD == <<"a","s","s","i","s","t","a","n","t">>
WAKE_WORD_TIMEOUT == 10

\* VoiceAssistant.command_map, in insertion order.
command_map == <<
    [trigger |-> <<"j","o","k","e">>, skill |-> "joke"],
    [trigger |-> <<"t","i","m","e">>, skill |-> "time"],
    [trigger |-> <<"d","a","t","e">>, skill |-> "time"],
    [trigger |-> <<"s","t","o","p">>, skill |-> "exit"],
    [trigger |-> <<"e","x","i","t">>, skill |-> "exit"],
    [trigger |-> <<"g","o","o","d","b","y","e">>, skill |-> "exit"],
    [trigger |-> <<"s","l","e","e","p">>, skill |-> "sleep"] >>

\* WakeWordDetector.check(text) at time t from state (awake, last): the result
\* and the new state.
checkKeepsStamp(text, awake, last, t) ==
    LET text_lower == Strip(Lower(text)) IN
    IF Contains(text_lower, Lower(WAKE_WORD))
    THEN [result |-> TRUE, is_awake |-> TRUE,
          last_wake_time |-> IF awake THEN last ELSE t]
    ELSE IF awake
         THEN IF t - last < WAKE_WORD_TIMEOUT
              THEN [result |-> TRUE, is_awake |-> TRUE,
                    last_wake_time |-> last]
              ELSE [result |-> FALSE, is_awake |-> FALSE,
                    last_wake_time |-> last]
         ELSE [result |-> FALSE, is_awake |-> awake, last_wake_time |-> last]
checkExtendsWindow(text, awake, last, t) ==
    LET text_lower == Strip(Lower(text)) IN
    IF Contains(text_lower, Lower(WAKE_WORD))
    THEN [result |-> TRUE, is_awake |-> TRUE, last_wake_time |-> t]
    ELSE IF awake
         THEN IF t - last < WAKE_WORD_TIMEOUT
              THEN [result |-> TRUE, is_awake |-> TRUE,
                    last_wake_time |-> t]
              ELSE [result |-> FALSE, is_awake |-> FALSE,
                    last_wake_time |-> last]
         ELSE [result |-> FALSE, is_awake |-> awake, last_wake_time |-> last]
checkInclusive(text, awake, last, t) ==
    LET text_lower == Strip(Lower(text)) IN
    IF Contains(text_lower, Lower(WAKE_WORD))
    THEN [result |-> TRUE, is_awake |-> TRUE, last_wake_time |-> t]
    ELSE IF awake
         THEN IF t - last <= WAKE_WORD_TIMEOUT
              THEN [result |-> TRUE, is_awake |-> TRUE,
                    last_wake_time |-> last]
              ELSE [result |-> FALSE, is_awake |-> FALSE,
                    last_wake_time |-> last]
         ELSE [result |-> FALSE, is_awake |-> awake, last_wake_time |-> last]
checkLeavesAwake(text, awake, last, t) ==
    LET text_lower == Strip(Lower(text)) IN
    IF Contains(text_lower, Lower(WAKE_WORD))
    THEN [result |-> TRUE, is_awake |-> TRUE, last_wake_time |-> t]
    ELSE IF awake
         THEN IF t - last < WAKE_WORD_TIMEOUT
              THEN [result |-> TRUE, is_awake |-> TRUE,
                    last_wake_time |-> last]
              ELSE [result |-> FALSE, is_awake |-> awake,
                    last_wake_time |-> last]
         ELSE [result |-> FALSE, is_awake |-> awake, last_wake_time |-> last]
checkAcceptsAsleep(text, awake, last, t) ==
    LET text_lower == Strip(Lower(text)) IN
    IF Contains(text_lower, Lower(WAKE_WORD))
    THEN [result |-> TRUE, is_awake |-> awake, last_wake_time |-> last]
    ELSE IF awake
         THEN IF t - last < WAKE_WORD_TIMEOUT
              THEN [result |-> TRUE, is_awake |-> TRUE,
                    last_wake_time |-> last]
              ELSE [result |-> FALSE, is_awake |-> FALSE,
                    last_wake_time |-> last]
         ELSE [result |-> FALSE, is_awake |-> awake, last_wake_time |-> last]
check(text, awake, last, t) ==
    LET text_lower == Strip(Lower(text)) IN
    IF Contains(text_lower, Lower(WAKE_WORD))
    THEN [result |-> TRUE, is_awake |-> TRUE, last_wake_time |-> t]
    ELSE IF awake
         THEN IF t - last < WAKE_WORD_TIMEOUT
              THEN [result |-> TRUE, is_awake |-> TRUE,
                    last_wake_time |-> last]
              ELSE [result |-> FALSE, is_awake |-> FALSE,
                    last_wake_time |-> last]
         ELSE [result |-> FALSE, is_awake |-> awake, last_wake_time |-> last]

\* The for loop of handle_command: the skill of the first entry of
\* command_map whose trigger is in command_text, "none" when there is none.
MatchingEntries(command_text) ==
    {k \in 1..Len(command_map) : Contains(command_text, command_map[k].trigger)}
LastMatch(command_text) ==
    IF MatchingEntries(command_text) = {} THEN "none"
    ELSE command_map[CHOOSE k \in MatchingEntries(command_text) :
                        \A j \in MatchingEntries(command_text) : k >= j].skill
FirstMatch(command_text) ==
    IF MatchingEntries(command_text) = {} THEN "none"
    ELSE command_map[CHOOSE k \in MatchingEntries(command_text) :
                        \A j \in MatchingEntries(command_text) : k <= j].skill

\* handle_command(text) up to the call of the skill: what it decides.
\*   "empty"     the text is empty, return
\*   "asleep"    the wake check failed, return
\*   "silent"    nothing left of the text but more than the phrase, return
\*   "ack"       speak "Yes? I'm listening."
\*   "fallback"  no trigger matches, speak the fallback
\*   otherwise the skill to call
DispatchUngated(text, awake, last, t) ==
    LET txt == Strip(Lower(text))
        command_text == Strip(Remove(txt, WAKE_WORD))
    IN  IF txt = <<>> THEN "empty"
        ELSE IF command_text = <<>> /\ txt # WAKE_WORD THEN "silent"
        ELSE IF command_text = <<>> \/ command_text = WAKE_WORD THEN "ack"
        ELSE IF FirstMatch(command_text) = "none" THEN "fallback"
        ELSE FirstMatch(command_text)
DispatchWithoutAck(text, awake, last, t) ==
    LET txt == Strip(Lower(text))
        chk == check(txt, awake, last, t)
        command_text == Strip(Remove(txt, WAKE_WORD))
    IN  IF txt = <<>> THEN "empty"
        ELSE IF ~chk.result THEN "asleep"
        ELSE IF command_text = <<>> /\ txt # WAKE_WORD THEN "silent"
        ELSE IF FirstMatch(command_text) = "none" THEN "fallback"
        ELSE FirstMatch(command_text)
Dispatch(text, awake, last, t) ==
    LET txt == Strip(Lower(text))
        chk == check(txt, awake, last, t)
        command_text == Strip(Remove(txt, WAKE_WORD))
    IN  IF txt = <<>> THEN "empty"
        ELSE IF ~chk.result THEN "asleep"
        ELSE IF command_text = <<>> /\ txt # WAKE_WORD THEN "silent"
        ELSE IF command_text = <<>> \/ command_text = WAKE_WORD THEN "ack"
        ELSE IF FirstMatch(command_text) = "none" THEN "fallback"
        ELSE FirstMatch(command_text)

\* ========================================================== audio filters

\* Samples are integers in units of 0.005: the thresholds of the default
\* configuration, 0.015, 0.04 and 0.01, are 3, 8 and 2.
rms_threshold == 3
peak_threshold == 8
noise_gate_threshold == 2

Abs(x) == IF x < 0 THEN -x ELSE x

RECURSIVE SumSq(_)
SumSq(audio) ==
    IF audio = <<>> THEN 0 ELSE Head(audio) * Head(audio) + SumSq(Tail(audio))

RECURSIVE Peak(_)
Peak(audio) ==
    IF audio = <<>> THEN 0
    ELSE LET p == Peak(Tail(audio))
         IN  IF Abs(Head(audio)) > p THEN Abs(Head(audio)) ELSE p

\* rms > rms_t for rms = np.sqrt(np.mean(audio ** 2)) of a non-empty audio:
\* the root is never negative, so it exceeds every negative threshold, and it
\* exceeds a threshold >= 0 exactly when sum(audio ** 2) exceeds
\* rms_t ** 2 * len(audio).
RmsExceeds(audio, rms_t) ==
    \/ rms_t < 0
    \/ SumSq(audio) > rms_t * rms_t * Len(audio)

\* The filter with both comparisons inclusive.
is_significant_audio_inclusive(audio, rms_t, peak_t) ==
    IF Len(audio) = 0 THEN FALSE
    ELSE \/ rms_t <= 0
         \/ SumSq(audio) >= rms_t * rms_t * Len(audio)
         \/ Peak(audio) >= peak_t

\* is_significant_audio(audio, rms_threshold, peak_threshold): False for an
\* audio of length 0, otherwise rms > rms_threshold or peak > peak_threshold
\* with peak = np.max(np.abs(audio)). (Called without thresholds it takes the
\* configured ones.)
is_significant_audio(audio, rms_t, peak_t) ==
    IF Len(audio) = 0 THEN FALSE
    ELSE \/ RmsExceeds(audio, rms_t)
         \/ Peak(audio) > peak_t

\* The gate leaving every sample as it is, and the gate that also keeps the
\* samples at the threshold.
noise_gate_bypassed(audio, threshold) == audio
noise_gate_inclusive(audio, threshold) ==
    [i \in 1..Len(audio) |->
        IF Abs(audio[i]) >= threshold THEN audio[i] ELSE 0]

\* noise_gate(audio, threshold): mask = np.abs(audio) > threshold;
\* audio * mask. (Called without a threshold it takes the configured one.)
noise_gate(audio, threshold) ==
    [i \in 1..Len(audio) |->
        IF Abs(audio[i]) > threshold THEN audio[i] ELSE 0]

\* ================================================== VoiceAssistant.listen

\* CONFIG['audio']['chunk_duration_seconds'], and
\* CHUNK_SIZE_SAMPLES = self.sample_rate * chunk_duration
chunk_duration_seconds == 3
CHUNK_SIZE_SAMPLES == sample_rate * chunk_duration_seconds


\* The blocks the capture device delivers (indata, flattened): of different
\* lengths, so that a chunk is reached exactly or overshot.
Blocks == {<<0>>, <<9, 1>>}

\* The texts the transcription engine returns.
U_Wake == <<"A","s","s","i","s","t","a","n","t">>
U_Exit == <<"e","x","i","t">>
U_WakeExit == <<"a","s","s","i","s","t","a","n","t"," ","e","x","i","t"," ">>
Utterances == {U_Wake, U_Exit, U_WakeExit}

\* What model.transcribe returns for a chunk: up to MaxSegments texts (none
\* on silence, and none when transcribe_audio catches an engine error).
RECURSIVE SeqsUpTo(_, _)
SeqsUpTo(S, n) ==
    IF n = 0 THEN {<<>>}
    ELSE LET shorter == SeqsUpTo(S, n - 1)
         IN  shorter \cup {Append(q, x) : q \in shorter, x \in S}
Transcripts == SeqsUpTo(Utterances, MaxSegments)

\* How much the clock can have advanced between two readings.
Elapsed == {0, 10}

\* The texts handed to check and handle_command from outside listen().
C_Joke == <<"t","e","l","l"," ","m","e"," ","a"," ","j","o","k","e">>
C_StopTime == <<"S","t","o","p"," ","t","h","e"," ","t","i","m","e">>
C_Sleep == <<"g","o"," ","t","o"," ","s","l","e","e","p">>
C_Hello == <<"h","e","l","l","o">>
C_Blank == <<" "," ">>
C_WakeTwice == <<"a","s","s","i","s","t","a","n","t"," ","a","s","s","i","s","t","a","n","t">>
C_WakeTime == <<"A","s","s","i","s","t","a","n","t"," ","w","h","a","t"," ",
                "t","i","m","e"," ","i","s"," ","i","t">>
Commands == Utterances \cup
            {C_Joke, C_StopTime, C_Sleep, C_Hello, C_Blank, C_WakeTwice,
             C_WakeTime}

\* By how much the clock advances between two readings outside listen().
Delays == {5, 6}

\* The texts of the speech requests of the assistant.
SkillTexts(skill) ==
    CASE skill = "joke" -> {"joke", "joke_sorry"}
      [] skill = "time" -> {"time", "time_sorry"}
      [] skill = "sleep" -> {"sleep"}
      [] skill = "exit" -> {"farewell"}
      [] skill = "ack" -> {"ack"}
      [] skill = "fallback" -> {"fallback"}

\* The callback of an assistant whose hand-off queue holds one block at most
\* (queue.Queue(maxsize=1)): put waits until the Supervisor has taken the
\* block before.
CallbackBounded ==
    /\ stream = "open"
    /\ nCaptured < MaxBlocks
    /\ Len(audio_q) < 1
    /\ \E b \in Blocks :
        audio_q' = Append(audio_q, [samples |-> b, hot |-> Playing # {},
                                    id |-> nCaptured + 1])
    /\ nCaptured' = nCaptured + 1
    /\ UNCHANGED <<ttsVars, pc, ctext, histVars, audio_buffer, segments,
                   keep_running, restart_count, stream, is_awake,
                   last_wake_time, now, bufHot, bufBlocks, lastChunk, chunks,
                   nTranscribed,
                   farewells, exits, ending, exit_status>>

\* VoiceAssistant.callback: self.audio_q.put(indata.copy()). The stream calls
\* it while it is open; audio_q is queue.Queue() without a maxsize, so put
\* never waits for room.
Callback ==
    /\ stream = "open"
    /\ nCaptured < MaxBlocks
    /\ \E b \in Blocks :
        audio_q' = Append(audio_q, [samples |-> b, hot |-> Playing # {},
                                    id |-> nCaptured + 1])
    /\ nCaptured' = nCaptured + 1
    /\ UNCHANGED <<ttsVars, pc, ctext, histVars, audio_buffer, segments,
                   keep_running, restart_count, stream, is_awake,
                   last_wake_time, now, bufHot, bufBlocks, lastChunk, chunks,
                   nTranscribed,
                   farewells, exits, ending, exit_status>>

\* main(): assistant = VoiceAssistant(). _initialize_whisper and
\* _initialize_tts raise FileNotFoundError when a model file is missing, before
\* PiperTTS is built; main() catches it, and a KeyboardInterrupt, with
\* assistant still None, so that its finally clause has nothing to clean up.
MainConstruct ==
    /\ pc[Supervisor] = "construct"
    /\ \E outcome \in {"built", "missing", "interrupt"} :
        IF outcome = "built"
        THEN /\ wpc' = "loop"
             /\ pc' = [pc EXCEPT ![Supervisor] = "start"]
             /\ UNCHANGED ending
        ELSE /\ ending' = IF outcome = "missing" THEN "startup"
                          ELSE "interrupt"
             /\ pc' = [pc EXCEPT ![Supervisor] = "main_end"]
             /\ UNCHANGED wpc
    /\ UNCHANGED <<lock, speech_queue, unfinished, is_speaking,
                   shutdown_flag, wtext, ctext, histVars, audio_q,
                   audio_buffer, segments, keep_running, restart_count,
                   stream, is_awake, last_wake_time, now, nCaptured, bufHot,
                   bufBlocks, lastChunk, chunks, nTranscribed, farewells,
                   exits, exit_status>>

\* The value main() returns to sys.exit(): 1 from `except FileNotFoundError`
\* and from `except Exception`, 0 from `except KeyboardInterrupt`; after a
\* listen() that returned there is no return statement, and sys.exit(None)
\* is status 0.
MainStatusAlwaysZero(how) == 0
MainStatus(how) ==
    CASE how = "startup" -> 1
      [] how = "fatal" -> 1
      [] how = "interrupt" -> 0
      [] OTHER -> 0

\* sys.exit(main()) once main()'s finally clause is over.
MainReturn ==
    /\ pc[Supervisor] = "main_end"
    /\ exit_status' = MainStatus(ending)
    /\ pc' = [pc EXCEPT ![Supervisor] = "exited"]
    /\ UNCHANGED <<ttsVars, ctext, histVars, audio_q, audio_buffer, segments,
                   keep_running, restart_count, stream, is_awake,
                   last_wake_time, now, nCaptured, bufHot, bufBlocks,
                   lastChunk, chunks, nTranscribed, farewells, exits,
                   ending>>

\* listen() up to the loop: speak the greeting, open the input stream.
LStart ==
    /\ pc[Supervisor] = "start"
    /\ Enqueue("greeting")
    /\ stream' = "open"
    /\ pc' = [pc EXCEPT ![Supervisor] = "loop"]
    /\ UNCHANGED <<lock, is_speaking, shutdown_flag, wpc, wtext, ctext,
                   started, completed, failed, waitSnap, nWaits, nShutdowns,
                   shutdownReturned, audio_q, audio_buffer, segments,
                   keep_running, restart_count, is_awake, last_wake_time, now,
                   nCaptured, bufHot, bufBlocks, lastChunk, chunks,
                   nTranscribed, farewells,
                   exits, ending, exit_status>>


\* Leaving listen() with the stream left open.
LeaveListenStreamOpen ==
    /\ UNCHANGED stream
    /\ audio_buffer' = <<>>
    /\ bufHot' = FALSE
    /\ bufBlocks' = <<>>
    /\ segments' = <<>>
    /\ pc' = [pc EXCEPT ![Supervisor] = "cleanup"]

\* Leaving listen(): the with block closes the stream and the locals
\* audio_buffer and segments cease to exist; the finally clause calls
\* _cleanup next.
LeaveListen ==
    /\ stream' = "closed"
    /\ audio_buffer' = <<>>
    /\ bufHot' = FALSE
    /\ bufBlocks' = <<>>
    /\ segments' = <<>>
    /\ pc' = [pc EXCEPT ![Supervisor] = "cleanup"]

\* The loop as `while True:`.
LLoopForever ==
    /\ pc[Supervisor] = "loop"
    /\ pc' = [pc EXCEPT ![Supervisor] = "get"]
    /\ UNCHANGED <<stream, audio_buffer, bufHot, bufBlocks, segments>>
    /\ UNCHANGED <<ttsVars, ctext, histVars, audio_q, keep_running,
                   restart_count, is_awake, last_wake_time, now, nCaptured,
                   lastChunk, chunks, nTranscribed, farewells, exits, ending,
                   exit_status>>

\* while self.keep_running:
LLoop ==
    /\ pc[Supervisor] = "loop"
    /\ IF keep_running
       THEN /\ pc' = [pc EXCEPT ![Supervisor] = "get"]
            /\ UNCHANGED <<stream, audio_buffer, bufHot, bufBlocks, segments>>
       ELSE LeaveListen
    /\ UNCHANGED <<ttsVars, ctext, histVars, audio_q, keep_running,
                   restart_count, is_awake, last_wake_time, now, nCaptured,
                   lastChunk, chunks, nTranscribed, farewells, exits, ending,
                   exit_status>>

\* if len(audio_buffer) >= CHUNK_SIZE_SAMPLES (line 496)
ChunkReadyStrict(buf) == Len(buf) > CHUNK_SIZE_SAMPLES
ChunkReady(buf) == Len(buf) >= CHUNK_SIZE_SAMPLES

\* The samples of a sequence of blocks, one block after the other.
RECURSIVE Samples(_)
Samples(blocks) ==
    IF blocks = <<>> THEN <<>>
    ELSE Head(blocks).samples \o Samples(Tail(blocks))

\* data = self.audio_q.get(timeout=0.5), the block appended to the buffer and,
\* when the buffer is a full chunk, the significance check and the noise
\* gate (lines 493-504). queue.Empty: continue.
LGet ==
    /\ pc[Supervisor] = "get"
    /\ IF audio_q = <<>>
       THEN /\ pc' = [pc EXCEPT ![Supervisor] = "loop"]
            /\ UNCHANGED <<audio_q, audio_buffer, bufHot, bufBlocks,
                           lastChunk, chunks>>
       ELSE LET data == Head(audio_q)
                buf == audio_buffer \o data.samples
                hot == bufHot \/ data.hot
                blocks == Append(bufBlocks, data)
                chunk == [ids |-> [k \in 1..Len(blocks) |-> blocks[k].id],
                          faithful |-> buf = Samples(blocks),
                          transcribed |-> FALSE]
            IN  /\ audio_q' = Tail(audio_q)
                /\ IF ChunkReady(buf)
                   THEN IF ~is_significant_audio(buf, rms_threshold, peak_threshold)
                        THEN /\ audio_buffer' = <<>>
                             /\ bufHot' = FALSE
                             /\ bufBlocks' = <<>>
                             /\ chunks' = Append(chunks, chunk)
                             /\ lastChunk' =
                                  [NoChunk EXCEPT !.ready = TRUE,
                                       !.readySpeaking = is_speaking,
                                       !.hot = hot]
                             /\ pc' = [pc EXCEPT ![Supervisor] = "loop"]
                        ELSE /\ audio_buffer' = noise_gate(buf,
                                                    noise_gate_threshold)
                             /\ bufHot' = hot
                             /\ bufBlocks' = blocks
                             /\ chunks' = Append(chunks, chunk)
                             /\ lastChunk' =
                                  [NoChunk EXCEPT !.ready = TRUE,
                                       !.readySpeaking = is_speaking,
                                       !.gated = TRUE, !.hot = hot]
                             /\ pc' = [pc EXCEPT ![Supervisor] = "check"]
                   ELSE /\ audio_buffer' = buf
                        /\ bufHot' = hot
                        /\ bufBlocks' = blocks
                        /\ pc' = [pc EXCEPT ![Supervisor] = "loop"]
                        /\ UNCHANGED <<lastChunk, chunks>>
    /\ UNCHANGED <<ttsVars, ctext, histVars, segments, keep_running,
                   restart_count, stream, is_awake, last_wake_time, now,
                   nCaptured, nTranscribed, farewells, exits, ending,
                   exit_status>>

\* if not self.tts.is_speaking.is_set(): segments = transcribe_audio(buffer)
\* else: skip; an empty result clears the buffer at once (line 519).
\* transcribe_audio catches every exception of the engine call and returns
\* the empty list then (lines 459-461).
\* A segment whose stripped text is empty is passed over by the for loop.
LCheckAlwaysTranscribe ==
    /\ pc[Supervisor] = "check"
    /\ \E segs \in Transcripts :
        /\ segments' = segs
        /\ nTranscribed' = nTranscribed + 1
        /\ lastChunk' = [lastChunk EXCEPT !.transcribed = TRUE,
                                          !.skipped = is_speaking]
        /\ chunks' = [chunks EXCEPT ![Len(chunks)].transcribed = TRUE]
        /\ pc' = [pc EXCEPT ![Supervisor] = "segs"]
        /\ UNCHANGED <<audio_buffer, bufHot, bufBlocks>>
    /\ UNCHANGED <<ttsVars, ctext, histVars, audio_q, keep_running,
                   restart_count, stream, is_awake, last_wake_time, now,
                   nCaptured, farewells, exits, ending, exit_status>>
Transcribe(transcripts) ==
    /\ pc[Supervisor] = "check"
    /\ IF ~is_speaking
       THEN \E segs \in transcripts, raised \in BOOLEAN :
            /\ raised => segs = <<>>
            /\ segments' = segs
            /\ nTranscribed' = nTranscribed + 1
            /\ lastChunk' = [lastChunk EXCEPT !.transcribed = TRUE,
                                              !.engineFailed = raised]
            /\ chunks' = [chunks EXCEPT ![Len(chunks)].transcribed = TRUE]
            /\ pc' = [pc EXCEPT ![Supervisor] = "segs"]
            /\ UNCHANGED <<audio_buffer, bufHot, bufBlocks>>
       ELSE /\ lastChunk' = [lastChunk EXCEPT !.skipped = TRUE]
            /\ audio_buffer' = <<>>
            /\ bufHot' = FALSE
            /\ bufBlocks' = <<>>
            /\ UNCHANGED chunks
            /\ pc' = [pc EXCEPT ![Supervisor] = "loop"]
            /\ UNCHANGED <<segments, nTranscribed>>
    /\ UNCHANGED <<ttsVars, ctext, histVars, audio_q, keep_running,
                   restart_count, stream, is_awake, last_wake_time, now,
                   nCaptured, farewells, exits, ending, exit_status>>
LCheck == Transcribe(Transcripts)

\* handle_command on a segment u of the transcript, for every state of the
\* detector and every time: the stripped text, the result of check and the
\* decision. (A table, so that each case is evaluated once.)
Times == StartTime..MaxTime
Handled ==
    [u \in Commands |-> [a \in BOOLEAN |-> [l \in {0} \cup Times |->
     [t \in Times |->
        LET text == Strip(Lower(Strip(u)))
        IN  [text |-> text,
             chk |-> check(text, a, l, t),
             what |-> Dispatch(text, a, l, t)]]]]]

\* self.tts.speak(text) for one of the given texts, or no speech at all.
Say(texts) ==
    IF texts = {}
    THEN UNCHANGED <<requests, speech_queue, unfinished>>
    ELSE \E txt \in texts : Enqueue(txt)

\* What handle_command says for a decision of Dispatch.
Answer(what) ==
    IF what \in {"empty", "asleep", "silent"} THEN {} ELSE SkillTexts(what)

\* _skill_exit after speak(farewell): self.tts.wait_until_done()
SkillExitSkipsWait == "exit_set"
SkillExitNext == "wud_join"

\* handle_command(u) at time t: the wake check, the answer or the skill, with
\* the skill's effect: _skill_sleep resets the detector, _skill_exit goes on
\* to wait_until_done(); every other skill returns at once.
HandleCommandSleepStaysAwake(u, t) ==
    LET h == Handled[u][is_awake][last_wake_time][t]
    IN  /\ Say(Answer(h.what))
        /\ is_awake' = IF h.text = <<>> THEN is_awake ELSE h.chk.is_awake
        /\ last_wake_time' = IF h.text = <<>> THEN last_wake_time
                             ELSE h.chk.last_wake_time
        /\ IF h.what = "exit"
           THEN /\ farewells' = farewells \cup {Len(requests) + 1}
                /\ waitSnap' = [waitSnap EXCEPT
                       ![Supervisor] = Queued \cup {Len(requests) + 1}]
                /\ pc' = [pc EXCEPT ![Supervisor] = SkillExitNext]
           ELSE UNCHANGED <<farewells, waitSnap, pc>>
HandleCommand(u, t) ==
    LET h == Handled[u][is_awake][last_wake_time][t]
    IN  /\ Say(Answer(h.what))
        /\ is_awake' = IF h.text = <<>> THEN is_awake
                       ELSE IF h.what = "sleep" THEN FALSE
                       ELSE h.chk.is_awake
        /\ last_wake_time' = IF h.text = <<>> THEN last_wake_time
                             ELSE IF h.what = "sleep" THEN 0
                             ELSE h.chk.last_wake_time
        /\ IF h.what = "exit"
           THEN /\ farewells' = farewells \cup {Len(requests) + 1}
                /\ waitSnap' = [waitSnap EXCEPT
                       ![Supervisor] = Queued \cup {Len(requests) + 1}]
                /\ pc' = [pc EXCEPT ![Supervisor] = SkillExitNext]
           ELSE UNCHANGED <<farewells, waitSnap, pc>>

\* The skills that can raise into handle_command: _skill_tell_joke and
\* _skill_tell_time catch every exception in their own bodies.
RaisingSkills == {"sleep", "exit"}

\* handle_command(u) at time t when the skill raises (lines 411-416): the
\* except clause speaks the apology and handle_command returns. _skill_sleep
\* has reset the detector before anything in it can raise; _skill_exit raises
\* in its first call, before the farewell is enqueued.
SkillRaisesUnspoken(u, t) ==
    LET h == Handled[u][is_awake][last_wake_time][t]
    IN  /\ h.what \in RaisingSkills
        /\ is_awake' = IF h.what = "sleep" THEN FALSE ELSE h.chk.is_awake
        /\ last_wake_time' = IF h.what = "sleep" THEN 0
                             ELSE h.chk.last_wake_time
        /\ UNCHANGED <<requests, speech_queue, unfinished, farewells,
                       waitSnap, pc>>

SkillRaises(u, t) ==
    LET h == Handled[u][is_awake][last_wake_time][t]
    IN  /\ h.what \in RaisingSkills
        /\ Enqueue("apology")
        /\ is_awake' = IF h.what = "sleep" THEN FALSE ELSE h.chk.is_awake
        /\ last_wake_time' = IF h.what = "sleep" THEN 0
                             ELSE h.chk.last_wake_time
        /\ UNCHANGED <<farewells, waitSnap, pc>>

\* The for loop over the segments (lines 511-519): handle_command on the next
\* segment; after the last, the buffer is cleared.
LSegs ==
    /\ pc[Supervisor] = "segs"
    /\ IF segments = <<>>
       THEN /\ audio_buffer' = <<>>
            /\ bufHot' = FALSE
            /\ bufBlocks' = <<>>
            /\ pc' = [pc EXCEPT ![Supervisor] = "loop"]
            /\ UNCHANGED <<requests, speech_queue, unfinished, segments,
                           is_awake, last_wake_time, now, farewells,
                           waitSnap>>
       ELSE \E d \in Elapsed :
            /\ now + d <= MaxTime
            /\ now' = now + d
            /\ segments' = Tail(segments)
            /\ \/ HandleCommand(Head(segments), now + d)
               \/ SkillRaises(Head(segments), now + d)
            /\ UNCHANGED <<audio_buffer, bufHot, bufBlocks>>
    /\ UNCHANGED <<lock, is_speaking, shutdown_flag, wpc, wtext, ctext,
                   started, completed, failed, nWaits, nShutdowns,
                   shutdownReturned, audio_q, keep_running, restart_count,
                   stream, nCaptured, lastChunk, chunks, nTranscribed, exits,
                   ending, exit_status>>

\* The farewell request of the _skill_exit call in progress.
RECURSIVE SetMax(_)
SetMax(S) ==
    LET x == CHOOSE y \in S : TRUE
    IN  IF S = {x} THEN x
        ELSE LET m == SetMax(S \ {x}) IN IF x > m THEN x ELSE m

\* _skill_exit after wait_until_done(): self.keep_running = False
LExitSet ==
    /\ pc[Supervisor] = "exit_set"
    /\ keep_running' = FALSE
    /\ exits' = exits \cup {SetMax(farewells)}
    /\ pc' = [pc EXCEPT ![Supervisor] = "segs"]
    /\ UNCHANGED <<ttsVars, ctext, histVars, audio_q, audio_buffer, segments,
                   restart_count, stream, is_awake, last_wake_time, now,
                   nCaptured, bufHot, bufBlocks, lastChunk, chunks,
                   nTranscribed, farewells,
                   ending, exit_status>>

\* The retry test with <= for <: one recovery more than max_restarts.
LFaultInclusive ==
    /\ \/ /\ pc[Supervisor] = "get"
          /\ audio_q # <<>>
          /\ audio_q' = Tail(audio_q)
       \/ /\ pc[Supervisor] = "segs"
          /\ segments # <<>>
          /\ UNCHANGED audio_q
    /\ IF restart_count <= max_restarts
       THEN /\ restart_count' = restart_count + 1
            /\ segments' = <<>>
            /\ pc' = [pc EXCEPT ![Supervisor] = "loop"]
            /\ UNCHANGED <<stream, ending, exit_status, audio_buffer, bufHot,
                           bufBlocks>>
       ELSE /\ LeaveListen
            /\ ending' = "fatal"
            /\ UNCHANGED <<restart_count, exit_status>>
    /\ UNCHANGED <<ttsVars, ctext, histVars, keep_running, is_awake,
                   last_wake_time, now, nCaptured, lastChunk, chunks,
                   nTranscribed,
                   farewells, exits>>

\* An exception in one iteration (lines 524-534), raised while a block is
\* taken into the buffer or while a segment is handled: recovered while
\* restarts are left, else re-raised out of listen(), whose finally clause
\* calls _cleanup.
LFault ==
    /\ \/ /\ pc[Supervisor] = "get"
          /\ audio_q # <<>>
          /\ audio_q' = Tail(audio_q)
       \/ /\ pc[Supervisor] = "segs"
          /\ segments # <<>>
          /\ UNCHANGED audio_q
    /\ IF restart_count < max_restarts
       THEN /\ restart_count' = restart_count + 1
            /\ segments' = <<>>
            /\ pc' = [pc EXCEPT ![Supervisor] = "loop"]
            /\ UNCHANGED <<stream, ending, exit_status, audio_buffer, bufHot,
                           bufBlocks>>
       ELSE /\ LeaveListen
            /\ ending' = "fatal"
            /\ UNCHANGED <<restart_count, exit_status>>
    /\ UNCHANGED <<ttsVars, ctext, histVars, keep_running, is_awake,
                   last_wake_time, now, nCaptured, lastChunk, chunks,
                   nTranscribed,
                   farewells, exits>>

\* The positions of the Supervisor inside the try block of listen().
InListen ==
    pc[Supervisor] \in {"start", "loop", "get", "check", "segs", "wud_join",
                        "wud_poll", "exit_set"}

\* except KeyboardInterrupt: self.keep_running = False; finally: _cleanup()
LInterrupt ==
    /\ InListen
    /\ keep_running' = FALSE
    /\ LeaveListen
    /\ ending' = "interrupt"
    /\ UNCHANGED exit_status
    /\ UNCHANGED <<ttsVars, ctext, histVars, audio_q, restart_count, is_awake,
                   last_wake_time, now, nCaptured, lastChunk, chunks,
                   nTranscribed,
                   farewells, exits>>

\* Every step of the Supervisor but the transcription.
SupervisorOtherStep ==
    \/ MainConstruct
    \/ LStart
    \/ LLoop
    \/ LGet
    \/ LSegs
    \/ WudJoin(Supervisor) /\ UNCHANGED supVars
    \/ WudPoll(Supervisor) /\ UNCHANGED supVars
    \/ LExitSet
    \/ LFault
    \/ LInterrupt
    \/ ShutdownCall(Supervisor) /\ UNCHANGED supVars
    \/ SdPut(Supervisor) /\ UNCHANGED supVars
    \/ SdJoin(Supervisor) /\ UNCHANGED supVars
    \/ MainReturn

SupervisorStep ==
    \/ SupervisorOtherStep
    \/ LCheck

NextListen ==
    \/ WorkerStep /\ UNCHANGED <<supVars, call>>
    \/ Callback /\ UNCHANGED call
    \/ SupervisorStep /\ UNCHANGED call

\* The assistant: the Supervisor in main() and listen(), the capture callback
\* and the speech worker.
SpecListen == InitListen /\ [][NextListen]_vars

\* The assistant hearing chunks in which the engine finds two segments: the
\* exit command and then the activation phrase; or nothing.
ExitThenWake == <<U_WakeExit, U_Wake>>
NextTwoSegments ==
    \/ WorkerStep /\ UNCHANGED <<supVars, call>>
    \/ Callback /\ UNCHANGED call
    \/ SupervisorOtherStep /\ UNCHANGED call
    \/ Transcribe({<<>>, ExitThenWake}) /\ UNCHANGED call

SpecTwoSegments == InitListen /\ [][NextTwoSegments]_vars

\* The steps the Supervisor takes by itself inside the loop of listen(): every
\* read of audio_q returns, with a block or by its timeout, and nothing else
\* in the loop waits for another thread but wait_until_done().
LoopStep ==
    /\ \/ LLoop
       \/ LGet
       \/ LCheck
       \/ LSegs
       \/ WudJoin(Supervisor) /\ UNCHANGED supVars
       \/ WudPoll(Supervisor) /\ UNCHANGED supVars
       \/ LExitSet
    /\ UNCHANGED call

\* The assistant with the Supervisor and the worker scheduled and every
\* playback coming to an end. Nothing is assumed of the capture device: it
\* may stop delivering blocks at any time; nor of faults and interrupts.
SpecListenLive ==
    /\ InitListen
    /\ [][NextListen]_vars
    /\ WF_vars(LoopStep)
    /\ WF_vars(WorkerStep /\ UNCHANGED <<supVars, call>>)

\* ================================ the detector and handle_command, called
\* directly (as a test or another front end calls them).

\* `self.wake_word in text_lower` for each of the texts.
Phrase == [u \in Commands |-> Contains(Strip(Lower(u)), Lower(WAKE_WORD))]

\* WakeWordDetector.check(u) at time t from state (a, l), for each input.
Checked ==
    [u \in Commands |-> [a \in BOOLEAN |-> [l \in {0} \cup Times |->
     [t \in Times |-> check(u, a, l, t)]]]]

\* The assistant is constructed and listen() is not called.
InitCommands ==
    /\ InitTTS
    /\ InitSupervisor
    /\ pc = [t \in Threads |-> IF t = Supervisor THEN "drive" ELSE "off"]

\* Time passes: time.time() returns more at the next reading.
DTick ==
    /\ pc[Supervisor] = "drive"
    /\ \E d \in Delays :
        /\ now + d <= MaxTime
        /\ now' = now + d
    /\ UNCHANGED <<ttsVars, pc, ctext, histVars, audio_q, audio_buffer,
                   segments, keep_running, restart_count, stream, is_awake,
                   last_wake_time, nCaptured, bufHot, bufBlocks, lastChunk,
                   chunks, nTranscribed,
                   farewells, exits, ending, exit_status, call>>

\* wake_word_detector.check(u) at the current time.
DCheck ==
    /\ pc[Supervisor] = "drive"
    /\ \E u \in Commands :
        LET r == Checked[u][is_awake][last_wake_time][now]
        IN  /\ is_awake' = r.is_awake
            /\ last_wake_time' = r.last_wake_time
            /\ call' = [op |-> "check", text |-> u, t |-> now,
                        awake0 |-> is_awake, last0 |-> last_wake_time,
                        result |-> r.result, what |-> "none", said |-> 0,
                        raised |-> FALSE]
    /\ UNCHANGED <<ttsVars, pc, ctext, histVars, audio_q, audio_buffer,
                   segments, keep_running, restart_count, stream, now,
                   nCaptured, bufHot, bufBlocks, lastChunk, chunks,
                   nTranscribed, farewells,
                   exits, ending, exit_status>>

\* wake_word_detector.reset()
DReset ==
    /\ pc[Supervisor] = "drive"
    /\ is_awake' = FALSE
    /\ last_wake_time' = 0
    /\ call' = [op |-> "reset", text |-> <<>>, t |-> now,
                awake0 |-> is_awake, last0 |-> last_wake_time,
                result |-> FALSE, what |-> "none", said |-> 0,
                raised |-> FALSE]
    /\ UNCHANGED <<ttsVars, pc, ctext, histVars, audio_q, audio_buffer,
                   segments, keep_running, restart_count, stream, now,
                   nCaptured, bufHot, bufBlocks, lastChunk, chunks,
                   nTranscribed, farewells,
                   exits, ending, exit_status>>

\* handle_command(u), d seconds after the previous call; the skill it runs
\* returns or raises.
DHandle ==
    /\ pc[Supervisor] = "drive"
    /\ \E u \in Commands, d \in Elapsed, raised \in BOOLEAN :
        /\ now + d <= MaxTime
        /\ now' = now + d
        /\ LET h == Handled[u][is_awake][last_wake_time][now + d]
           IN  /\ Answer(h.what) # {} => Len(requests) < MaxSpoken
               /\ IF raised THEN SkillRaises(u, now + d)
                            ELSE HandleCommand(u, now + d)
               /\ call' = [op |-> "handle", text |-> u, t |-> now + d,
                           awake0 |-> is_awake, last0 |-> last_wake_time,
                           result |-> h.text # <<>> /\ h.chk.result,
                           what |-> h.what,
                           said |-> Len(requests') - Len(requests),
                           raised |-> raised]
    /\ UNCHANGED <<lock, is_speaking, shutdown_flag, wpc, wtext, ctext,
                   started, completed, failed, nWaits, nShutdowns,
                   shutdownReturned, audio_q, audio_buffer, segments,
                   keep_running, restart_count, stream, nCaptured, bufHot,
                   bufBlocks,
                   lastChunk, chunks, nTranscribed, exits, ending,
                   exit_status>>

\* The detector alone: check and reset called at any times.
NextDetector ==
    \/ DTick
    \/ DCheck
    \/ DReset

SpecDetector == InitCommands /\ [][NextDetector]_vars

\* handle_command called for one text after another, with the speech worker
\* running.
NextCommands ==
    \/ WorkerStep /\ UNCHANGED <<supVars, call>>
    \/ DReset
    \/ DHandle
    \/ WudJoin(Supervisor) /\ UNCHANGED <<supVars, call>>
    \/ WudPoll(Supervisor) /\ UNCHANGED <<supVars, call>>
    \/ LExitSet /\ UNCHANGED call

SpecCommands == InitCommands /\ [][NextCommands]_vars

\* ======================================= noise_gate, called directly

\* The arrays and thresholds noise_gate is called with: positive, zero and
\* negative samples, thresholds from below zero up to the largest magnitude.
Levels == (0 - MaxLevel)..MaxLevel
Thresholds == (0 - 1)..MaxLevel

\* A call noise_gate(audio, threshold) is about to be made.
InitGate ==
    /\ InitTTS
    /\ InitAssistant
    /\ pc = [t \in Threads |-> "off"]
    /\ \E audio \in SeqsUpTo(Levels, MaxLen), threshold \in Thresholds :
        call = [op |-> "input", audio |-> audio, threshold |-> threshold,
                result |-> <<>>]

\* noise_gate(audio, threshold) returns.
GateCall ==
    /\ call.op = "input"
    /\ call' = [call EXCEPT !.op = "noise_gate",
                   !.result = noise_gate(call.audio, call.threshold)]
    /\ UNCHANGED <<ttsVars, pc, ctext, histVars, supVars>>

NextGate == GateCall

SpecGate == InitGate /\ [][NextGate]_vars

\* ------------------------------------- is_significant_audio called directly

\* The call under test: an audio of up to MaxLen samples and the two
\* thresholds, which may be negative.
InitFilter ==
    /\ InitTTS
    /\ InitAssistant
    /\ pc = [t \in Threads |-> "off"]
    /\ \E audio \in SeqsUpTo(Levels, MaxLen), rms_t \in Thresholds,
          peak_t \in Thresholds :
          call = [op |-> "input", audio |-> audio, rms_threshold |-> rms_t,
                  peak_threshold |-> peak_t, result |-> FALSE]

FilterCall ==
    /\ call.op = "input"
    /\ call' = [call EXCEPT
                  !.op = "is_significant_audio",
                  !.result = is_significant_audio(call.audio,
                                 call.rms_threshold, call.peak_threshold)]
    /\ UNCHANGED <<ttsVars, pc, ctext, histVars, supVars>>

NextFilter == FilterCall

SpecFilter == InitFilter /\ [][NextFilter]_vars

\* ============================================== load_config and its readers

\* A value of a configuration document: a scalar or a mapping of keys to
\* values. (A list counts as a scalar here: it has no items() either.)
Scalar(x) == [kind |-> "scalar", v |-> x, items |-> <<>>]
Mapping(f) == [kind |-> "mapping", v |-> "", items |-> f]
NoItems == [k \in {} |-> Scalar("")]

\* default_config, with the sections and keys read at startup.
default_config ==
    Mapping([sec \in {"wake_word", "audio", "error_recovery"} |->
        CASE sec = "wake_word" ->
               Mapping([k \in {"phrase", "timeout"} |->
                   IF k = "phrase" THEN Scalar("assistant")
                                   ELSE Scalar("10")])
          [] sec = "audio" ->
               Mapping([k \in {"sample_rate", "chunk_duration_seconds"} |->
                   IF k = "sample_rate" THEN Scalar("16000")
                                        ELSE Scalar("3")])
          [] sec = "error_recovery" ->
               Mapping([k \in {"max_restart_attempts"} |-> Scalar("3")])])

\* merge_dict(base, update): for key, value in update.items(): a mapping is
\* merged into a mapping, everything else replaces what base had.
RECURSIVE merge_dict(_, _)
merge_dict(base, update) ==
    Mapping([key \in DOMAIN base.items \cup DOMAIN update.items |->
        IF key \notin DOMAIN update.items THEN base.items[key]
        ELSE IF /\ key \in DOMAIN base.items
                /\ base.items[key].kind = "mapping"
                /\ update.items[key].kind = "mapping"
             THEN merge_dict(base.items[key], update.items[key])
             ELSE update.items[key]])

\* load_config(config_file). The file is absent, or yaml.safe_load raises on
\* it, or it yields a document: None for an empty file, a scalar or a list,
\* or a mapping. user_config.items() raises AttributeError for everything but
\* a mapping, before anything is merged; every exception is caught and the
\* defaults are returned.
load_config(file) ==
    IF file.kind \in {"absent", "unparsable"} THEN default_config
    ELSE IF file.doc.kind # "mapping" THEN default_config
    ELSE merge_dict(default_config, file.doc)

\* What the module and VoiceAssistant.__init__ read from CONFIG at startup.
ModuleReads == {<<"wake_word", "phrase">>, <<"wake_word", "timeout">>}
InitReads == {<<"error_recovery", "max_restart_attempts">>,
              <<"audio", "sample_rate">>}

\* CONFIG[section][key] returns: the section is there and is a mapping that
\* has the key. (Otherwise it raises KeyError or TypeError.)
CanRead(config, read) ==
    /\ read[1] \in DOMAIN config.items
    /\ config.items[read[1]].kind = "mapping"
    /\ read[2] \in DOMAIN config.items[read[1]].items

\* The configuration files tried: for each section, nothing, a scalar, an
\* empty mapping or a mapping that sets one key.
SectionValues ==
    {Scalar("5"), Mapping(NoItems),
     Mapping([k \in {"timeout"} |-> Scalar("20")])}
Documents ==
    {Scalar("none"), Scalar("5")} \cup
    {Mapping(f) : f \in UNION {[S -> SectionValues] :
                     S \in SUBSET {"wake_word", "audio", "error_recovery"}}}
ConfigFiles ==
    {[kind |-> "absent", doc |-> Scalar("none")],
     [kind |-> "unparsable", doc |-> Scalar("none")]} \cup
    {[kind |-> "parsed", doc |-> d] : d \in Documents}

InitConfig ==
    /\ InitTTS
    /\ InitAssistant
    /\ pc = [t \in Threads |-> "off"]
    /\ \E file \in ConfigFiles :
          call = [op |-> "input", file |-> file, CONFIG |-> default_config,
                  startup |-> "none"]

\* CONFIG = load_config()
LoadConfig ==
    /\ call.op = "input"
    /\ call' = [call EXCEPT !.op = "load_config",
                            !.CONFIG = load_config(call.file)]
    /\ UNCHANGED <<ttsVars, pc, ctext, histVars, supVars>>

\* The rest of the import of the module, and VoiceAssistant.__init__ up to
\* its last line: the first read that raises ends the startup.
Startup ==
    /\ call.op = "load_config"
    /\ call' = [call EXCEPT
         !.op = "startup",
         !.startup =
            IF \E r \in ModuleReads : ~CanRead(call.CONFIG, r)
            THEN "import_failed"
            ELSE IF \E r \in InitReads : ~CanRead(call.CONFIG, r)
            THEN "init_failed"
            ELSE "started"]
    /\ UNCHANGED <<ttsVars, pc, ctext, histVars, supVars>>

NextConfig == LoadConfig \/ Startup

SpecConfig == InitConfig /\ [][NextConfig]_vars

\* ================================================================ claims
\* The formulas below are checked under Spec unless stated otherwise.

\* C1: at every moment at most one playback (the body of _speak_blocking) is
\* in progress, whichever threads call speak(), blocking or not.
C1_AtMostOnePlayback == Cardinality(Playing) <= 1

\* A blocking caller plays while the worker, flag set, waits for the lock.
C1_Witness ==
    /\ wpc = "lock"
    /\ \E t \in Clients : pc[t] = "sb_play"

\* C2: the worker plays the queued requests in the order of their enqueueing:
\* when a request's playback has started, every request enqueued before it
\* has completed playback.
C2_Fifo ==
    \A a \in Queued : \A b \in Queued :
        (a < b /\ b \in started) => a \in completed

\* Two queued requests, the second of which has started playing.
C2_Witness ==
    \E a \in Queued : \E b \in Queued : a < b /\ b \in started

\* C3, as stated (checked under SpecListen): a full chunk that becomes ready
\* while is_speaking is set is neither noise-gated nor transcribed.
C3_SpeakingChunkUntouched ==
    lastChunk.readySpeaking => (~lastChunk.gated /\ ~lastChunk.transcribed)

\* C3, amended (SpecListen): when the Supervisor's check of is_speaking for a
\* full chunk finds the flag set, the transcription engine is not called and
\* the buffer is reset to empty; noise_gate has run on the chunk before.
C3_SkipsWhenFlagReadSet ==
    [][(pc[Supervisor] = "check" /\ pc'[Supervisor] \in {"loop", "segs"}
            /\ is_speaking)
        => /\ lastChunk.gated
           /\ nTranscribed' = nTranscribed
           /\ segments' = <<>>
           /\ audio_buffer' = <<>>
           /\ pc'[Supervisor] = "loop"]_vars

\* A chunk has been skipped because is_speaking was read set.
C3_Witness ==
    /\ lastChunk.skipped
    /\ lastChunk.readySpeaking
    /\ nTranscribed = 0

\* C4 (SpecListen): no chunk holding a block that was captured while a
\* playback was in progress is passed to the transcription engine.
C4_NeverTranscribesOwnVoice == ~(lastChunk.transcribed /\ lastChunk.hot)

\* C5: is_speaking is set during the whole of every playback, the worker's
\* and that of a speak(text, blocking=True) call.
C5_FlagDuringEveryPlayback == Playing # {} => is_speaking

\* C6: the worker sets is_speaking before a playback and clears it after it,
\* failed or not: the flag is set while the worker is in _speak_blocking and
\* clear whenever the worker waits on the queue or has terminated.
C6_FlagFollowsWorker ==
    /\ wpc \in {"lock", "play"} => is_speaking
    /\ wpc \in {"loop", "get", "done"} => ~is_speaking

\* The worker is back at the queue after a playback of its own that failed.
C6_Witness ==
    /\ wpc = "get"
    /\ failed \cap Queued # {}

\* C7: a failed synthesis or playback of a queued request is contained: the
\* worker ends only on shutdown, no later request is lost (it is still on the
\* queue, in the worker's hands, or played), and the caller of speak() has
\* returned to its own work.
InQueue(i) == \E k \in 1..Len(speech_queue) : speech_queue[k] = i

C7_FailureContained ==
    /\ wpc = "done" => shutdown_flag
    /\ \A b \in Queued :
        \/ b \in started
        \/ InQueue(b)
        \/ (wtext = b /\ wpc \in {"set", "lock"})

\* A queued request failed and the request enqueued after it has been taken
\* and played by the worker.
C7_Witness ==
    \E a \in Queued : \E b \in Queued :
        a < b /\ a \in failed /\ b \in completed

\* C8, as stated: wait_until_done() returns only in a state where no queued
\* request is unplayed and no playback is in progress.
C8_ReturnsWhenAllQuiet ==
    [][\A t \in Clients :
          (pc[t] = "wud_poll" /\ pc'[t] = "wud_ret")
              => (Queued \subseteq completed /\ Playing = {})]_vars

\* C8, amended: when wait_until_done() has returned, every request that was
\* enqueued before the call has completed playback.
C8_EarlierRequestsPlayed ==
    \A t \in Threads :
        pc[t] = AfterWait(t) => waitSnap[t] \subseteq completed

\* wait_until_done() has returned to a caller that had requests enqueued
\* before it.
C8_Witness ==
    \E t \in Clients : pc[t] = "wud_ret" /\ waitSnap[t] # {}

\* C9 (SpecListen): on the exit command the farewell has completed playback
\* when keep_running is set to False, and so before the stream is closed and
\* shutdown() is called: unless listen() was interrupted, keep_running is
\* False only after a farewell has played, and a run that ends by the exit
\* command closes the stream and calls shutdown() with every farewell played.
C9_FarewellBeforeStop ==
    /\ exits \subseteq completed
    /\ (~keep_running /\ ending # "interrupt") => exits # {}
    /\ (ending = "no" /\ (stream = "closed" \/ shutdown_flag))
          => (farewells # {} /\ farewells \subseteq completed)

\* The run ended by the exit command and shutdown() has been called.
C9_Witness ==
    /\ ending = "no"
    /\ stream = "closed"
    /\ shutdown_flag
    /\ exits # {}

\* C10: after shutdown() has returned, no later speak() call, blocking or
\* not, starts a playback.
C10_NoPlaybackAfterShutdown ==
    \A i \in 1..Len(requests) : requests[i].late => i \notin started

\* C11 (SpecShutdown): shutdown() returns whether or not a synthesis call is
\* stuck, and a worker that is idle (at the loop test or in the timed get)
\* when the sentinel is at the head of the queue terminates.
C11_ShutdownReturns ==
    /\ \A t \in Clients : (pc[t] = "sd_put") ~> (pc[t] = "sd_ret")
    /\ (/\ wpc \in {"loop", "get"}
        /\ speech_queue # <<>>
        /\ Head(speech_queue) = None) ~> (wpc = "done")

\* shutdown() has returned while the worker is still inside a playback.
C11_Witness ==
    /\ shutdownReturned
    /\ wpc = "play"
    /\ lock = Worker

\* A non-blocking speak() in this step: the request is put on the queue, no
\* playback starts or ends in the step and the caller is back in its code.
SpeakReturnsAtOnce ==
    (/\ Len(requests') = Len(requests) + 1
     /\ ~requests'[Len(requests')].blocking)
    => /\ started' = started
       /\ completed' = completed
       /\ speech_queue' = Append(speech_queue, Len(requests'))
       /\ \A t \in Clients : pc'[t] # pc[t] => pc'[t] = "idle"

\* C12, as stated (SpecLive): every request put on the queue while the
\* shutdown flag is clear is eventually played, and speak() returns without
\* waiting for the playback.
C12_EnqueuedIsPlayed ==
    /\ [][SpeakReturnsAtOnce]_vars
    /\ \A i \in 1..MaxRequests :
         (InQueue(i) /\ ~shutdown_flag) ~> (i \in completed)

\* C12, amended (SpecLive): every request put on the queue while the shutdown
\* flag is clear is eventually played unless shutdown is requested before
\* the worker takes it, and speak() returns without waiting for the playback.
C12_EnqueuedIsPlayedUnlessShutdown ==
    /\ [][SpeakReturnsAtOnce]_vars
    /\ \A i \in 1..MaxRequests :
         (InQueue(i) /\ ~shutdown_flag) ~> (i \in completed \/ shutdown_flag)

\* A queued request has been played by the worker with no shutdown requested.
C12_Witness ==
    /\ ~shutdown_flag
    /\ \E i \in Queued : i \in completed /\ ~InQueue(i)

\* The last call was check(text) at time call.t, and nothing has happened
\* to the detector since.
JustChecked == call.op = "check"

\* C13 (SpecDetector): check(text) on a text that contains the activation
\* phrase returns true, sets is_awake and sets last_wake_time to the time of
\* the call, whatever the wake state was.
C13_PhraseWakes ==
    (JustChecked /\ Phrase[call.text])
        => (call.result /\ is_awake /\ last_wake_time = call.t)

\* The phrase has been matched while the detector was already awake, later
\* than the previous match.
C13_Witness ==
    /\ JustChecked
    /\ Phrase[call.text]
    /\ call.awake0
    /\ call.last0 < call.t

\* C14 (SpecDetector): check(text) on a text without the phrase, while awake
\* and less than the timeout after last_wake_time, returns true and leaves
\* last_wake_time as it was.
C14_CommandKeepsStamp ==
    (/\ JustChecked
     /\ ~Phrase[call.text]
     /\ call.awake0
     /\ call.t - call.last0 < WAKE_WORD_TIMEOUT)
        => (call.result /\ is_awake /\ last_wake_time = call.last0)

\* A command without the phrase has been accepted 5 or 6 seconds after the
\* activation.
C14_Witness ==
    /\ JustChecked
    /\ ~Phrase[call.text]
    /\ call.awake0
    /\ call.t - call.last0 \in 1..(WAKE_WORD_TIMEOUT - 1)
    /\ call.result

\* C15 (SpecDetector): check(text) on a text without the phrase, the timeout
\* or more after last_wake_time, returns false and leaves the detector asleep;
\* 5 units after the activation the result is true, 11 units after it false.
C15_ExpiresLazily ==
    /\ (/\ JustChecked
        /\ ~Phrase[call.text]
        /\ call.t - call.last0 >= WAKE_WORD_TIMEOUT)
           => (~call.result /\ ~is_awake)
    /\ (/\ JustChecked
        /\ ~Phrase[call.text]
        /\ call.awake0
        /\ call.t - call.last0 = 5) => call.result
    /\ (/\ JustChecked
        /\ ~Phrase[call.text]
        /\ call.t - call.last0 = 11) => ~call.result

\* An awake detector has been put to sleep by a check exactly the timeout
\* after the activation.
C15_Witness ==
    /\ JustChecked
    /\ ~Phrase[call.text]
    /\ call.awake0
    /\ call.t - call.last0 = WAKE_WORD_TIMEOUT
    /\ ~is_awake

\* C16, as stated (SpecDetector): in every state is_awake is true exactly if
\* the most recent check matched the phrase or now - last_wake_time is less
\* than the timeout.
C16_AwakeIffFresh ==
    is_awake <=> \/ (JustChecked /\ Phrase[call.text])
                 \/ now - last_wake_time < WAKE_WORD_TIMEOUT

\* C16, amended (SpecDetector): when check() returns, before the clock moves
\* on, is_awake is the returned value, and it is true exactly if that check
\* matched the phrase or now - last_wake_time is less than the timeout.
C16_AwakeIffFreshAtCheck ==
    (JustChecked /\ now = call.t)
        => /\ is_awake <=> call.result
           /\ is_awake <=> \/ Phrase[call.text]
                            \/ now - last_wake_time < WAKE_WORD_TIMEOUT

\* A check without the phrase has found the window expired.
C16_Witness ==
    /\ JustChecked
    /\ now = call.t
    /\ call.awake0
    /\ ~Phrase[call.text]
    /\ ~is_awake
    /\ now - last_wake_time >= WAKE_WORD_TIMEOUT

\* The last call was handle_command(call.text) at time call.t.
JustHandled == call.op = "handle"

\* command_text of handle_command for each text, and the entries of
\* command_map whose trigger is in it.
CommandText ==
    [u \in Commands |-> Strip(Remove(Strip(Lower(u)), WAKE_WORD))]
Matches == [u \in Commands |-> MatchingEntries(CommandText[u])]

\* The speech request enqueued last.
LastSaid == requests[Len(requests)].text

\* C17 (SpecCommands): reset() leaves the detector asleep whatever its state
\* was, the sleep command calls it, and the utterance that follows a reset or
\* a sleep command and does not contain the phrase is rejected by the wake
\* check, however soon after the activation it comes: nothing is said and no
\* skill runs.
C17_SleepClosesWindow ==
    /\ []((call.op = "reset" \/ (JustHandled /\ call.what = "sleep"))
            => (~is_awake /\ last_wake_time = 0))
    /\ [][(/\ call.op = "reset" \/ (JustHandled /\ call.what = "sleep")
           /\ call' # call
           /\ call'.op = "handle"
           /\ ~Phrase[call'.text])
          => /\ ~call'.result
             /\ call'.what \in {"empty", "asleep"}
             /\ call'.said = 0
             /\ requests' = requests
             /\ ~is_awake']_vars

\* After a sleep command an utterance without the phrase has been rejected,
\* with no time passed since the assistant started.
C17_Witness ==
    /\ JustHandled
    /\ call.what = "asleep"
    /\ call.text = C_Hello
    /\ now - StartTime < WAKE_WORD_TIMEOUT
    /\ requests # <<>>
    /\ LastSaid = "sleep"

\* C18 (SpecCommands): a call of handle_command runs a skill or enqueues a
\* request only if the wake check of that call returned true, that is only if
\* the text holds the phrase or the detector was awake and inside its window.
C18_CheckIsTheOnlyGate ==
    /\ []((/\ JustHandled
           /\ call.said > 0 \/ call.what \notin {"empty", "asleep", "silent"})
            => /\ call.result
               /\ \/ Phrase[call.text]
                  \/ /\ call.awake0
                     /\ call.t - call.last0 < WAKE_WORD_TIMEOUT)
    /\ [][(\/ requests' # requests
           \/ keep_running' # keep_running
           \/ pc'[Supervisor] \notin {"drive", pc[Supervisor]})
          => (call'.op = "handle" /\ call'.result)]_vars

\* A command without the phrase has been dispatched to a skill because the
\* detector was awake.
C18_Witness ==
    /\ JustHandled
    /\ ~Phrase[call.text]
    /\ call.what = "joke"
    /\ call.said = 1

\* C19 (SpecCommands): an utterance that passes the wake check and whose
\* command text holds triggers runs the skill of the first such entry of
\* command_map, in table order, and no other: one request of that skill is
\* enqueued, only the sleep skill resets the detector and only the exit skill
\* waits and clears keep_running.
C19_FirstMatchWins ==
    /\ []((JustHandled /\ call.result /\ Matches[call.text] # {})
            => LET first == CHOOSE k \in Matches[call.text] :
                                \A j \in Matches[call.text] : k <= j
               IN  /\ call.what = command_map[first].skill
                   /\ call.said = 1
                   /\ \/ LastSaid \in SkillTexts(command_map[first].skill)
                      \/ call.raised /\ LastSaid = "apology"
                   /\ call.what # "sleep" => is_awake
                   /\ call.what # "exit" => pc[Supervisor] = "drive")
    /\ [][keep_running' # keep_running => call.what = "exit"]_vars

\* An utterance with the triggers of two different skills has run the skill
\* of the earlier entry.
C19_Witness ==
    /\ JustHandled
    /\ call.result
    /\ \E j, k \in Matches[call.text] :
          /\ j < k
          /\ command_map[j].skill # command_map[k].skill
          /\ call.what = command_map[j].skill
    /\ LastSaid \in SkillTexts(call.what)

\* C20 (SpecCommands): an utterance that passes the wake check and whose
\* command text holds no trigger gets the fallback request and runs no skill.
C20_NoTriggerGetsFallback ==
    (JustHandled /\ call.result /\ Matches[call.text] = {})
        => /\ call.what = "fallback"
           /\ call.said = 1
           /\ LastSaid = "fallback"

\* C21 (SpecCommands): an exception raised by a skill is caught inside
\* handle_command: exactly one request, the apology, is enqueued for it,
\* handle_command returns to its caller, and restart_count and keep_running
\* are what they were before the call.
C21_HandlerExceptionContained ==
    /\ []((JustHandled /\ call.raised)
            => /\ call.said = 1
               /\ LastSaid = "apology"
               /\ pc[Supervisor] = "drive")
    /\ [][(call' # call /\ call'.op = "handle" /\ call'.raised)
          => /\ restart_count' = restart_count
             /\ keep_running' = keep_running
             /\ pc'[Supervisor] = pc[Supervisor]
             /\ Len(requests') = Len(requests) + 1]_vars

\* The exit skill has raised: the apology is the only request and the
\* assistant keeps running.
C21_Witness ==
    /\ JustHandled
    /\ call.raised
    /\ call.what = "exit"
    /\ keep_running
    /\ requests # <<>>
    /\ LastSaid = "apology"

\* C22 (SpecListen): an exception in an iteration while restart_count is
\* below max_restarts adds one to restart_count and the loop goes on; an
\* exception while restart_count = max_restarts is raised out of the loop,
\* which ends; restart_count never decreases and never exceeds max_restarts,
\* whatever iterations lie between the errors.
C22_BoundedRetry ==
    /\ [](restart_count \in 0..max_restarts)
    /\ [][/\ restart_count' \in {restart_count, restart_count + 1}
          /\ restart_count' # restart_count
                => /\ pc[Supervisor] \in {"get", "segs"}
                   /\ pc'[Supervisor] = "loop"
                   /\ stream' = "open"
                   /\ keep_running' = keep_running
                   /\ ending' = ending
          /\ (ending' = "fatal" /\ ending # "fatal")
                => /\ restart_count = max_restarts
                   /\ restart_count' = restart_count
                   /\ pc'[Supervisor] = "cleanup"
                   /\ stream' = "closed"]_vars

\* The error after the last recovered one has ended the loop.
C22_Witness ==
    /\ ending = "fatal"
    /\ restart_count = max_restarts
    /\ pc[Supervisor] = "cleanup"

\* C23, as stated (SpecListen): a failure of the transcription engine call
\* consumes one restart attempt while restart_count is below max_restarts,
\* and ends the loop as a fatal error once the attempts are used up.
C23_EngineFailureConsumesRetry ==
    [][(lastChunk'.engineFailed /\ ~lastChunk.engineFailed)
        => IF restart_count < max_restarts
           THEN restart_count' = restart_count + 1
           ELSE ending' = "fatal"]_vars

\* C24 (SpecListen): every way out of the run loop (the exit command, a
\* keyboard interrupt, the error after the last recovered one) closes the
\* capture stream and goes to _cleanup, whose next step is the call of
\* shutdown(): shutdown() is never called while the stream is open, and it
\* has been called when _cleanup is over.
C24_TeardownOnEveryWayOut ==
    /\ [](/\ (shutdown_flag \/ nShutdowns >= 1) => stream = "closed"
          /\ stream = "closed"
                => pc[Supervisor] \in {"cleanup", "sd_put", "sd_join",
                                       "main_finally", "main_end", "exited"}
          /\ (stream # "new" /\ pc[Supervisor] \in
                {"sd_put", "sd_join", "main_finally", "main_end", "exited"})
                => (nShutdowns >= 1 /\ shutdown_flag))
    /\ [][/\ (InListen /\ pc'[Supervisor] # pc[Supervisor]
                       /\ ~ pc'[Supervisor] \in {"start", "loop", "get",
                              "check", "segs", "wud_join", "wud_poll",
                              "exit_set"})
                => /\ pc'[Supervisor] = "cleanup"
                   /\ stream' = "closed"
                   /\ ~shutdown_flag'
                   /\ \/ ending' = "interrupt"
                      \/ ending' = "fatal" /\ restart_count = max_restarts
                      \/ ending' = "no" /\ ~keep_running
          /\ (pc[Supervisor] = "cleanup" /\ pc'[Supervisor] # "cleanup")
                => /\ nShutdowns' = nShutdowns + 1
                   /\ shutdown_flag'
                   /\ stream' = "closed"]_vars

\* The loop ended by the fatal error and the shutdown() call of _cleanup has
\* returned.
C24_Witness ==
    /\ ending = "fatal"
    /\ stream = "closed"
    /\ shutdownReturned
    /\ pc[Supervisor] = "main_finally"

\* C25 (SpecListen): the process exits with status 0 when the run was ended
\* by the exit command or by a keyboard interrupt, and with status 1 when a
\* model file was missing at startup (no stream opened, nothing to shut down)
\* or when the run loop failed with restart_count at max_restarts; it has no
\* exit status before.
C25_ExitStatus ==
    /\ pc[Supervisor] # "exited" => exit_status = -1
    /\ pc[Supervisor] = "exited"
          => /\ ending = "no" => (exit_status = 0 /\ exits # {})
             /\ ending = "interrupt" => exit_status = 0
             /\ ending = "startup"
                   => (exit_status = 1 /\ stream = "new" /\ nShutdowns = 0)
             /\ ending = "fatal"
                   => (exit_status = 1 /\ restart_count = max_restarts)
             /\ ending \in {"no", "interrupt", "startup", "fatal"}

\* The process has exited after the run loop failed for good.
C25_Witness ==
    /\ pc[Supervisor] = "exited"
    /\ ending = "fatal"
    /\ exit_status = 1
    /\ nShutdowns = 2

\* The Supervisor takes a block from the hand-off queue in this step and no
\* exception is raised.
TakesBlock ==
    /\ pc[Supervisor] = "get"
    /\ audio_q # <<>>
    /\ audio_q' = Tail(audio_q)
    /\ restart_count' = restart_count
    /\ ending' = ending

RECURSIVE ChunkIds(_)
ChunkIds(cs) ==
    IF cs = <<>> THEN <<>> ELSE Head(cs).ids \o ChunkIds(Tail(cs))

\* C27, as stated (SpecListen): every chunk is the concatenation, in arrival
\* order, of the blocks put on the hand-off queue since the buffer was last
\* emptied, as they were delivered; the blocks of the chunks processed so far
\* are the first blocks delivered, each once and in the order of delivery.
C27_ChunksAreTheBlocksInOrder ==
    /\ \A k \in 1..Len(chunks) : chunks[k].faithful
    /\ \A i \in 1..Len(ChunkIds(chunks)) : ChunkIds(chunks)[i] = i

\* The chunks so far that contain block id, and those of them that were
\* passed to the transcription engine.
ChunksWith(id) ==
    {k \in 1..Len(chunks) : \E i \in 1..Len(chunks[k].ids) :
                                chunks[k].ids[i] = id}
TranscribedWith(id) == {k \in ChunksWith(id) : chunks[k].transcribed}

\* C28, as stated (SpecListen): the samples of a chunk are evaluated by the
\* significance filter once and passed to the transcription engine at most
\* once, and they are discarded when the iteration that processes the chunk
\* is over, also when that iteration raised an exception that was recovered:
\* no block is in two chunks, and at the top of an iteration the buffer holds
\* less than a chunk.
C28_ChunkConsumedOnce ==
    /\ \A id \in 1..nCaptured :
          /\ Cardinality(ChunksWith(id)) <= 1
          /\ Cardinality(TranscribedWith(id)) <= 1
    /\ pc[Supervisor] \in {"loop", "get"}
          => Len(audio_buffer) < CHUNK_SIZE_SAMPLES

\* Every sample is 0 or above the gate's threshold: what noise_gate returns.
Gated(audio) ==
    \A i \in 1..Len(audio) :
        audio[i] = 0 \/ Abs(audio[i]) > noise_gate_threshold

JustGated == call.op = "noise_gate"

\* C30, as stated (SpecGate): noise_gate(x, t) returns a sequence of the
\* length of x in which every sample of magnitude below t is 0 and every
\* sample of magnitude t or above is the input sample, and no sample is
\* nonzero where the input was 0.
C30_GateKeepsAtOrAbove ==
    JustGated =>
        /\ Len(call.result) = Len(call.audio)
        /\ \A i \in 1..Len(call.audio) :
              /\ Abs(call.audio[i]) < call.threshold => call.result[i] = 0
              /\ Abs(call.audio[i]) >= call.threshold
                    => call.result[i] = call.audio[i]
              /\ call.audio[i] = 0 => call.result[i] = 0

\* C30, amended (SpecGate): noise_gate(x, t) returns a sequence of the length
\* of x in which every sample of magnitude t or below is 0 and every sample of
\* magnitude above t is the input sample, and no sample is nonzero where the
\* input was 0.
C30_GateKeepsAbove ==
    JustGated =>
        /\ Len(call.result) = Len(call.audio)
        /\ \A i \in 1..Len(call.audio) :
              /\ Abs(call.audio[i]) <= call.threshold => call.result[i] = 0
              /\ Abs(call.audio[i]) > call.threshold
                    => call.result[i] = call.audio[i]
              /\ call.audio[i] = 0 => call.result[i] = 0

\* A sample exactly at the threshold has been zeroed, next to one above the
\* threshold that was kept.
C30_Witness ==
    /\ JustGated
    /\ \E i, j \in 1..Len(call.audio) :
          /\ call.audio[i] # 0
          /\ Abs(call.audio[i]) = call.threshold
          /\ call.result[i] = 0
          /\ Abs(call.audio[j]) > call.threshold
          /\ call.result[j] = call.audio[j]

\* The call is_significant_audio(audio, rms_threshold, peak_threshold) has
\* returned.
JustFiltered == call.op = "is_significant_audio"

AllZero(audio) == \A i \in 1..Len(audio) : audio[i] = 0

\* C31 (SpecFilter): is_significant_audio returns true exactly when the chunk
\* is not empty and its root mean square exceeds rms_threshold or its largest
\* absolute sample exceeds peak_threshold; it returns false for the empty
\* chunk and, when neither threshold is negative, for a chunk of zeros of any
\* length.
C31_SignificantExactly ==
    JustFiltered =>
        /\ call.result <=>
              /\ call.audio # <<>>
              /\ \/ call.rms_threshold < 0
                 \/ SumSq(call.audio) >
                      call.rms_threshold * call.rms_threshold * Len(call.audio)
                 \/ \E i \in 1..Len(call.audio) :
                       Abs(call.audio[i]) > call.peak_threshold
        /\ call.audio = <<>> => ~call.result
        /\ (AllZero(call.audio) /\ call.rms_threshold >= 0
                                /\ call.peak_threshold >= 0) => ~call.result

\* A chunk found significant by its root mean square alone: no sample of it
\* exceeds the peak threshold.
C31_Witness ==
    /\ JustFiltered
    /\ call.result
    /\ call.rms_threshold >= 0
    /\ Peak(call.audio) <= call.peak_threshold

\* C32 (SpecListen): while the stream is open and the device has a block to
\* deliver, the capture callback can put it on the hand-off queue and return,
\* whatever the Supervisor and the synthesis worker are doing and whoever
\* holds the lock: also while the Supervisor is in transcribe_audio or in
\* wait_until_done().
C32_CallbackNeverWaits ==
    (stream = "open" /\ nCaptured < MaxBlocks) => ENABLED Callback

\* The Supervisor is in transcribe_audio, a playback is going on under the
\* lock, and the device has one more block to deliver.
C32_Witness ==
    /\ pc[Supervisor] = "check"
    /\ stream = "open"
    /\ lock = Worker
    /\ nCaptured < MaxBlocks

\* C33 (SpecCommands): handle_command on an utterance made of the activation
\* phrase and a command, with the detector asleep before: the detector is
\* awake afterwards with the time of the call as its stamp unless the skill
\* called is the sleep skill, the skill called is that of the first entry of
\* command_map whose trigger is in the command text, and exactly one speech
\* request is enqueued. For "Assistant what time is it" the command text is
\* "what time is it", the skill is the time skill, and the one request is
\* what that skill says.
C33_EndToEnd ==
    (/\ JustHandled
     /\ ~call.awake0
     /\ Phrase[call.text]
     /\ Matches[call.text] # {})
    => /\ call.result
       /\ call.what # "sleep" => is_awake /\ last_wake_time = call.t
       /\ \E k \in Matches[call.text] :
             /\ \A j \in Matches[call.text] : k <= j
             /\ call.what = command_map[k].skill
       /\ call.said = 1
       /\ Len(requests) >= 1
       /\ call.text = C_WakeTime =>
             /\ CommandText[call.text] =
                   <<"w","h","a","t"," ","t","i","m","e"," ","i","s"," ",
                     "i","t">>
             /\ call.what = "time"
             /\ ~call.raised
             /\ LastSaid \in SkillTexts("time")
             /\ is_awake

\* "Assistant what time is it" has been handled from the asleep state and the
\* time skill has spoken.
C33_Witness ==
    /\ JustHandled
    /\ ~call.awake0
    /\ call.text = C_WakeTime
    /\ call.what = "time"
    /\ call.said = 1
    /\ LastSaid = "time"
    /\ is_awake

\* C34 (SpecCommands): handle_command on an utterance that is the activation
\* phrase and nothing else (in any letter case), whatever the state of the
\* detector before: it enqueues the one request "Yes? I'm listening." and
\* calls no skill and no fallback, so that the detector is left awake.
C34_BarePhraseAcknowledged ==
    (JustHandled /\ Strip(Lower(call.text)) = WAKE_WORD)
    => /\ call.result
       /\ call.what = "ack"
       /\ ~call.raised
       /\ call.said = 1
       /\ Len(requests) >= 1
       /\ LastSaid = "ack"
       /\ is_awake
       /\ last_wake_time = call.t

\* "Assistant" has been handled with the detector asleep before.
C34_Witness ==
    /\ JustHandled
    /\ call.text = U_Wake
    /\ ~call.awake0
    /\ LastSaid = "ack"

\* The file is malformed: it cannot be parsed, or its document is not a
\* mapping, or a section of the defaults is given as something other than a
\* mapping.
Malformed(file) ==
    \/ file.kind = "unparsable"
    \/ /\ file.kind = "parsed"
       /\ \/ file.doc.kind # "mapping"
          \/ \E sec \in DOMAIN file.doc.items :
                /\ sec \in DOMAIN default_config.items
                /\ file.doc.items[sec].kind # "mapping"

\* C35 (SpecConfig): for a malformed configuration file load_config returns
\* the complete default configuration, and the startup that follows does not
\* fail on reading it.
C35_MalformedFileGivesDefaults ==
    /\ (call.op \in {"load_config", "startup"} /\ Malformed(call.file))
          => call.CONFIG = default_config
    /\ (call.op = "startup" /\ Malformed(call.file))
          => call.startup = "started"

\* C36 (SpecListenLive): from every state in which keep_running is false the
\* Supervisor leaves the loop of listen() and teardown starts (the stream is
\* closed and _cleanup is entered), also when the device delivers no block
\* any more; and a read of audio_q that ends by its timeout takes the
\* Supervisor back to the loop test with restart_count, the buffer and the
\* queue as they were.
C36_LoopEndsAfterFlag ==
    /\ (~keep_running) ~> (stream = "closed")
    /\ [][(pc[Supervisor] = "get" /\ audio_q = <<>>
                                  /\ pc'[Supervisor] = "loop")
             => /\ restart_count' = restart_count
                /\ audio_buffer' = audio_buffer
                /\ audio_q' = audio_q
                /\ keep_running' = keep_running]_vars

\* The exit skill has set keep_running to false, the device has delivered all
\* it will and the hand-off queue is empty; the loop has ended and teardown has
\* begun.
C36_Witness ==
    /\ ~keep_running
    /\ exits # {}
    /\ ending = "no"
    /\ audio_q = <<>>
    /\ pc[Supervisor] = "cleanup"
    /\ stream = "closed"

\* C37 (SpecCommands): every call of handle_command in which the wake check
\* returns true enqueues at least one speech request, whatever the text.
C37_CheckedUtteranceIsAnswered ==
    (JustHandled /\ call.result) => call.said >= 1

\* C38 (SpecTwoSegments): once an exit skill has run to its end (farewell
\* spoken, keep_running set to false) the farewell stays the last speech
\* request: nothing that follows in the transcript of the same chunk is
\* handled and answered.
C38_NothingAfterExit ==
    \A e \in exits : Len(requests) = e

\* C39 (SpecWait): every call of wait_until_done() returns, whether or not
\* shutdown() has been called before it or is called during it.
C39_WaitReturns ==
    \A t \in Clients : (pc[t] = "wud_join") ~> (pc[t] = "wud_ret")

\* C40 (SpecLive): once the shutdown flag is set the worker takes no request
\* from the queue and starts no playback; at most the playback in progress
\* comes to its end.
C40_NoPlaybackAfterFlag ==
    [][shutdown_flag =>
          /\ ~(wpc = "get" /\ wpc' = "set")
          /\ ~(wpc = "lock" /\ wpc' = "play")]_vars

====
